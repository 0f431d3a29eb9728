-------------------------- MODULE ProvisionProofs --------------------------
(***************************************************************************)
(* Completeness of what is opened, what a delete may take, and the replaced *)
(* key, for any number of clients, requests, retries, failures, evictions   *)
(* and collections.                                                         *)
(*                                                                         *)
(* An object is recognised by its uid, which never returns.  A thread acts  *)
(* on copies that may be stale; what they still show is Fits.  What every   *)
(* step does to the objects is Gentle: an object lasts as it is in all that *)
(* matters, comes with a new uid, or goes; and the dependencies of a parent *)
(* that lasts go only if its uid enters `robbed'.                           *)
(***************************************************************************)
EXTENDS ProvisionProperties, SequenceTheorems, TLAPS

Copies   == [uid : Nat, rv : Nat]
Requests == [pc : Phases, todo : Seq(Slots), seen : Copies, held : Copies,
             erase : {"keep", "delete", "only"}]

Ran(q)   == {q[i] : i \in DOMAIN q}
Lookups  == {"get", "post", "reget"}
Turns    == {"hold", "remove"}
Dependents == {"volume", "configmap", "service"}

\* In place, and not on its way out.
Firm(s) == InPlace(s) /\ ~objects[s].ending

\* What a creating thread has passed is in place, as long as the parent it
\* means exists and was not robbed.
Progress(t, r) ==
  Parent.there /\ Parent.uid = r.seen.uid /\ Parent.uid \notin robbed =>
    /\ Parent.print = want[t]
    /\ \A s \in Needed(want[t]) \ Ran(r.todo) : Firm(s)

\* What a delete holds: the object it chose, or one that has gone since.
Held(s, r) == objects[s].there /\ objects[s].uid = r.held.uid
HeldFits(r) ==
  /\ r.held.uid <= made[At(r)]
  /\ At(r) = "parent" => r.held.uid = r.seen.uid
  /\ At(r) = "volume" /\ r.erase # "only" =>
       r.erase = "delete" /\ (Held("volume", r) => objects["volume"].ours)
  /\ At(r) \in {"configmap", "service"} /\ Held(At(r), r) => OfParent(objects[At(r)], r.seen)

Fits(t, r) ==
  /\ r \in Requests
  /\ r.pc \in Lookups \cup Turns => r.todo # << >>
  /\ r.pc \in Lookups \cup {"open"} => t \in Creators
  /\ r.seen.uid <= made["parent"]
  /\ r.pc \in Lookups =>
       \/ r.seen.uid = 0 /\ At(r) = "parent" /\ Ran(Tail(r.todo)) = Needed(want[t])
       \/ "parent" \notin Ran(r.todo)
  /\ r.pc \in Lookups \cup {"open"} => Progress(t, r)
  /\ r.pc = "open" => r.todo = << >>
  /\ r.pc = "hold" => At(r) # "parent"
  /\ r.pc = "remove" => HeldFits(r)

ReqsFit == \A t \in Threads : Fits(t, reqs[t])

\* Uids count up; a file or a Service is never on its way out.
UidsFit ==
  /\ \A s \in Slots : objects[s].there =>
       /\ 1 <= objects[s].uid /\ objects[s].uid <= made[s]
       /\ objects[s].owner <= made["parent"]
  /\ \A u \in rekeyed : u <= made["parent"]
  /\ \A s \in {"configmap", "service"} : objects[s].there => ~objects[s].ending

Ready == Parent.uid \notin robbed => \A s \in Needed(Parent.print) : Firm(s)

OpenFirm == Parent.there /\ Parent.open /\ Parent.print # NoPrint => Ready

KeysFit ==
  Parent.there /\ Parent.uid \in rekeyed \ robbed =>
    Firm("configmap") /\ objects["configmap"].newkey

ProvisionInv == ProvisionTypeOK /\ ReqsFit /\ UidsFit /\ OpenFirm /\ KeysFit

-----------------------------------------------------------------------------
(* Sequences of slots.                                                      *)

LEMMA TailOf ==
  ASSUME NEW S, NEW q \in Seq(S), q # << >>
  PROVE  q[1] \in S /\ Tail(q) \in Seq(S) /\ Ran(q) = {q[1]} \cup Ran(Tail(q))
<1>1. /\ Tail(q) \in Seq(S) /\ Len(Tail(q)) = Len(q) - 1 /\ Len(q) \in Nat \ {0}
      /\ DOMAIN q = 1..Len(q) /\ DOMAIN Tail(q) = 1..Len(Tail(q))
      /\ \A i \in 1..Len(Tail(q)) : Tail(q)[i] = q[i + 1]
  BY HeadTailProperties, LenProperties, EmptySeq
<1>2. q[1] \in S
  BY <1>1, ElementOfSeq
<1>3. \A i \in DOMAIN q : i = 1 \/ (i - 1 \in DOMAIN Tail(q) /\ Tail(q)[i - 1] = q[i])
  BY <1>1
<1>4. \A i \in DOMAIN Tail(q) : i + 1 \in DOMAIN q /\ Tail(q)[i] = q[i + 1]
  BY <1>1
<1>5. q[1] \in Ran(q)
  BY <1>1 DEF Ran
<1>6. Ran(Tail(q)) \subseteq Ran(q)
  BY <1>4 DEF Ran
<1>7. Ran(q) \subseteq {q[1]} \cup Ran(Tail(q))
  <2> SUFFICES ASSUME NEW i \in DOMAIN q, i # 1 PROVE q[i] \in Ran(Tail(q))
    BY DEF Ran
  <2> QED
    BY <1>3 DEF Ran
<1> QED
  BY <1>1, <1>2, <1>5, <1>6, <1>7

LEMMA HeadOn ==
  ASSUME NEW S, NEW x \in S, NEW d \in Seq(S)
  PROVE  LET q == <<x>> \o d IN
         q \in Seq(S) /\ q # << >> /\ q[1] = x /\ Ran(Tail(q)) = Ran(d)
<1> DEFINE q == <<x>> \o d
<1>1. <<x>> \in Seq(S) /\ Len(<<x>>) = 1 /\ <<x>>[1] = x
  OBVIOUS
<1>2. /\ q \in Seq(S) /\ Len(q) = 1 + Len(d) /\ Len(d) \in Nat
      /\ \A i \in 1..(1 + Len(d)) : q[i] = IF i <= 1 THEN <<x>>[i] ELSE d[i - 1]
  BY <1>1, ConcatProperties, LenProperties
<1> HIDE DEF q
<1>3. q # << >> /\ q[1] = x
  BY <1>1, <1>2, EmptySeq
<1>4. /\ Len(Tail(q)) = Len(d) /\ DOMAIN Tail(q) = 1..Len(d) /\ DOMAIN d = 1..Len(d)
      /\ \A i \in 1..Len(d) : Tail(q)[i] = d[i]
  <2>1. /\ Tail(q) \in Seq(S) /\ Len(Tail(q)) = Len(q) - 1
        /\ \A i \in 1..Len(Tail(q)) : Tail(q)[i] = q[i + 1]
    BY <1>2, <1>3, HeadTailProperties
  <2>2. DOMAIN Tail(q) = 1..Len(Tail(q)) /\ DOMAIN d = 1..Len(d)
    BY <2>1, LenProperties
  <2> QED
    BY <1>2, <2>1, <2>2
<1>5. Ran(Tail(q)) = Ran(d)
  BY <1>4 DEF Ran
<1> QED
  BY <1>2, <1>3, <1>5, Zenon DEF q

LEMMA NoneOf == Ran(<< >>) = {}
BY DEF Ran

\* The three kinds.
LEMMA KindOf == ASSUME ProvisionTypeOK PROVE kind \in {"devmachine", "service", "job"}
BY ProvisionConstants DEF ProvisionTypeOK

\* The sequences the model writes down.
LEMMA Written ==
  /\ \A S : << >> \in Seq(S)
  /\ <<"volume">> \in Seq(Dependents) /\ <<"configmap", "service">> \in Seq(Dependents)
  /\ <<"service">> \in Seq(Dependents) /\ <<"parent">> \in Seq(Slots)
<1>1. \A S : << >> \in Seq(S)
  BY EmptySeq
<1> QED
  BY <1>1 DEF Dependents, Slots

LEMMA DependenciesOf ==
  ASSUME ProvisionTypeOK, NEW w
  PROVE  /\ Dependencies(w) \in Seq(Dependents) /\ Dependencies(w) \in Seq(Slots)
         /\ Needed(w) = Ran(Dependencies(w)) /\ Needed(w) \subseteq Dependents
         /\ kind = "job" => Dependencies(w) = << >> /\ Needed(w) = {}
<1>1. Dependencies(w) \in Seq(Dependents) /\ (kind = "job" => Dependencies(w) = << >>)
  <2>1. CASE kind = "devmachine"
    <3>1. (IF w.size > 0 THEN <<"volume">> ELSE << >>) \in Seq(Dependents)
      BY Written
    <3>2. (IF w.ssh THEN <<"configmap", "service">> ELSE << >>) \in Seq(Dependents)
      BY Written
    <3> QED
      BY <2>1, <3>1, <3>2, ConcatProperties DEF Dependencies
  <2>2. CASE kind = "service"
    BY <2>2, Written DEF Dependencies
  <2>3. CASE kind = "job"
    BY <2>3 DEF Dependencies
  <2> QED
    BY <2>1, <2>2, <2>3, KindOf
<1>2. Dependencies(w) \in Seq(Slots)
  BY <1>1, SeqMonotonic DEF Dependents, Slots
<1>3. Needed(w) = Ran(Dependencies(w))
  BY DEF Needed, Ran
<1>4. Ran(Dependencies(w)) \subseteq Dependents
  BY <1>1, ElementOfSeq, LenProperties DEF Ran
<1>5. kind = "job" => Needed(w) = {}
  BY <1>1, <1>3, NoneOf
<1> QED
  BY <1>1, <1>2, <1>3, <1>4, <1>5

LEMMA SidesOf ==
  ASSUME ProvisionTypeOK
  PROVE  VolumeLast \in Seq(Slots) /\ Sides \o <<"parent">> \o VolumeLast \in Seq(Slots)
<1>0. Dependents \subseteq Slots
  BY DEF Dependents, Slots
<1>1. VolumeLast \in Seq(Slots)
  <2>1. VolumeLast \in Seq(Dependents)
    BY Written DEF VolumeLast
  <2> QED
    BY <1>0, <2>1, SeqMonotonic
<1>2. Sides \in Seq(Slots)
  <2>1. Sides \in Seq(Dependents)
    BY KindOf, Written DEF Sides
  <2> QED
    BY <1>0, <2>1, SeqMonotonic
<1>3. <<"parent">> \in Seq(Slots)
  BY Written
<1> HIDE DEF Slots
<1>4. Sides \o <<"parent">> \in Seq(Slots)
  BY <1>2, <1>3, ConcatProperties
<1> QED
  BY <1>1, <1>4, ConcatProperties

-----------------------------------------------------------------------------
(* What a step may do to the objects.                                       *)

Lasts(s) ==
  /\ objects[s].there /\ objects'[s].there
  /\ objects'[s].uid = objects[s].uid /\ objects'[s].owner = objects[s].owner
  /\ objects'[s].print = objects[s].print /\ objects'[s].ours = objects[s].ours
  /\ objects'[s].size = objects[s].size
  /\ objects[s].newkey => objects'[s].newkey

Comes(s) ==
  /\ ~objects[s].there /\ objects'[s].there
  /\ objects'[s].uid = made[s] + 1 /\ made'[s] = made[s] + 1
  /\ objects'[s].owner <= made["parent"]

Goes(s) == ~objects'[s].there

Gentle ==
  /\ objects' \in [Slots -> Objects \cup {Absent}] /\ made' \in [Slots -> Nat]
  /\ UNCHANGED <<kind, want>>
  /\ robbed' \subseteq Nat /\ robbed \subseteq robbed'
  /\ \A s \in Slots : made[s] <= made'[s] /\ (Lasts(s) \/ Comes(s) \/ Goes(s))
  /\ \A s \in {"configmap", "service"} : objects'[s].there => ~objects'[s].ending
  /\ Comes("parent") /\ objects'["parent"].open => kind = "job"
  /\ Lasts("parent") /\ Parent.uid \notin robbed' =>
       \A s \in Dependents : Firm(s) =>
         Lasts(s) /\ ~objects'[s].ending
  /\ Lasts("parent") /\ objects'["parent"].open => objects["parent"].open \/ Ready

\* A dependency of a parent that lasts is as firm as it was.
LEMMA FirmKept ==
  ASSUME Gentle, Lasts("parent"), Parent.uid \notin robbed', NEW s \in Dependents, Firm(s)
  PROVE  Firm(s)'
<1>1. Lasts(s) /\ ~objects'[s].ending
  BY DEF Gentle
<1> QED
  BY <1>1 DEF Firm, InPlace, Parent, Lasts

\* The parent a uid means is the one it meant.
LEMMA SameParent ==
  ASSUME ProvisionTypeOK, Gentle, NEW u \in Nat, u <= made["parent"],
         objects'["parent"].there, objects'["parent"].uid = u
  PROVE  Lasts("parent") /\ Parent.there /\ Parent.uid = u
<1>1. made["parent"] \in Nat /\ "parent" \in Slots
  BY DEF ProvisionTypeOK, Slots
<1>2. ~Comes("parent")
  BY <1>1 DEF Comes
<1> QED
  BY <1>1, <1>2 DEF Gentle, Lasts, Goes, Parent

LEMMA SameNeeds == ASSUME Gentle, NEW w PROVE Needed(w)' = Needed(w)
BY DEF Gentle, Needed, Dependencies

\* What a thread has seen and passed outlives the steps of the others.
LEMMA ProgressKept ==
  ASSUME ProvisionTypeOK, Gentle, NEW t, NEW r \in Requests, r.seen.uid <= made["parent"],
         Progress(t, r)
  PROVE  Progress(t, r)'
<1> SUFFICES ASSUME Parent'.there, Parent'.uid = r.seen.uid, Parent'.uid \notin robbed'
             PROVE  /\ Parent'.print = want[t]
                    /\ \A s \in Needed(want[t]) \ Ran(r.todo) : Firm(s)'
  BY SameNeeds DEF Progress, Gentle
<1>1. r.seen.uid \in Nat
  BY DEF Requests, Copies
<1>2. Lasts("parent") /\ Parent.there /\ Parent.uid = r.seen.uid
  BY <1>1, SameParent DEF Parent
<1>3. Parent.uid \notin robbed' /\ Parent.uid \notin robbed
  BY <1>2 DEF Gentle
<1>4. Parent.print = want[t] /\ \A s \in Needed(want[t]) \ Ran(r.todo) : Firm(s)
  BY <1>2, <1>3 DEF Progress
<1>5. Needed(want[t]) \subseteq Dependents
  BY DependenciesOf
<1>6. Parent'.print = Parent.print
  BY <1>2 DEF Lasts, Parent
<1> QED
  BY <1>2, <1>3, <1>4, <1>5, <1>6, FirmKept

LEMMA HeldKept ==
  ASSUME ProvisionTypeOK, Gentle, NEW r \in Requests, r.todo # << >>, HeldFits(r)
  PROVE  HeldFits(r)'
<1>1. At(r) \in Slots /\ r.held.uid \in Nat
  BY TailOf DEF At, Requests, Copies
<1>2. made[At(r)] \in Nat /\ made'[At(r)] \in Nat /\ made[At(r)] <= made'[At(r)]
  BY <1>1 DEF ProvisionTypeOK, Gentle
<1>3. Held(At(r), r)' => Held(At(r), r) /\ Lasts(At(r))
  <2>1. ASSUME Held(At(r), r)' PROVE ~Comes(At(r)) /\ ~Goes(At(r))
    BY <1>1, <1>2, <2>1 DEF Held, Comes, Goes, HeldFits, At
  <2>2. Lasts(At(r)) \/ Comes(At(r)) \/ Goes(At(r))
    BY <1>1 DEF Gentle
  <2> QED
    BY <2>1, <2>2 DEF Held, Lasts, At
<1>4. r.held.uid <= made'[At(r)]
  BY <1>1, <1>2 DEF HeldFits
<1>5. At(r)' = At(r)
  BY DEF At
<1>6. CASE At(r) = "parent"
  BY <1>4, <1>5, <1>6 DEF HeldFits
<1>7. CASE At(r) = "volume"
  BY <1>3, <1>4, <1>5, <1>7 DEF HeldFits, Lasts
<1>8. CASE At(r) \in {"configmap", "service"}
  BY <1>3, <1>4, <1>5, <1>8 DEF HeldFits, Lasts, OfParent
<1> QED
  BY <1>1, <1>6, <1>7, <1>8 DEF Slots

LEMMA FitsKept ==
  ASSUME ProvisionTypeOK, Gentle, NEW t, NEW r, Fits(t, r)
  PROVE  Fits(t, r)'
<1>1. r \in Requests /\ r.seen.uid \in Nat /\ r.seen.uid <= made["parent"]
  BY DEF Fits, Requests, Copies
<1>2. r.seen.uid <= made'["parent"]
  BY <1>1 DEF Gentle, ProvisionTypeOK, Slots
<1>3. r.pc \in Lookups \cup {"open"} => Progress(t, r)'
  BY <1>1, ProgressKept DEF Fits
<1>4. r.pc = "remove" => HeldFits(r)'
  BY <1>1, HeldKept DEF Fits, Turns
<1>5. Needed(want[t])' = Needed(want[t])
  BY SameNeeds DEF Gentle
<1> QED
  BY <1>1, <1>2, <1>3, <1>4, <1>5 DEF Fits, At

\* The facts about objects alone.
LEMMA UidsKept ==
  ASSUME ProvisionInv, Gentle, rekeyed' \subseteq Nat, \A u \in rekeyed' : u <= made["parent"]
  PROVE  UidsFit'
<1>1. ASSUME NEW s \in Slots, objects'[s].there
      PROVE  /\ 1 <= objects'[s].uid /\ objects'[s].uid <= made'[s]
             /\ objects'[s].owner <= made'["parent"]
  <2>1. /\ made[s] \in Nat /\ made'[s] \in Nat /\ made[s] <= made'[s]
        /\ made["parent"] \in Nat /\ made'["parent"] \in Nat
        /\ made["parent"] <= made'["parent"]
    BY DEF ProvisionInv, ProvisionTypeOK, Gentle, Slots
  <2>2. objects'[s].uid \in Nat /\ objects'[s].owner \in Nat
    <3>1. objects'[s] \in Objects \cup {Absent}
      BY DEF Gentle
    <3>2. objects'[s] \in Objects
      BY <1>1, <3>1 DEF Absent
    <3> QED
      BY <3>2 DEF Objects
  <2>3. CASE Lasts(s)
    BY <2>1, <2>2, <2>3 DEF Lasts, ProvisionInv, UidsFit
  <2>4. CASE Comes(s)
    BY <2>1, <2>2, <2>4 DEF Comes
  <2> QED
    BY <1>1, <2>3, <2>4 DEF Gentle, Goes
<1>2. \A u \in rekeyed' : u <= made'["parent"]
  BY DEF ProvisionInv, ProvisionTypeOK, Gentle, Slots
<1>3. \A s \in {"configmap", "service"} : objects'[s].there => ~objects'[s].ending
  BY DEF Gentle
<1> QED
  BY <1>1, <1>2, <1>3 DEF UidsFit

LEMMA OpenKept == ASSUME ProvisionInv, Gentle PROVE OpenFirm'
<1> SUFFICES ASSUME Parent'.there, Parent'.open, Parent'.print # NoPrint,
                    Parent'.uid \notin robbed',
                    NEW s \in Needed(Parent.print)'
             PROVE  Firm(s)'
  BY DEF OpenFirm, Ready
<1>0. PICK w : w = Parent'.print
  OBVIOUS
<1>1. s \in Needed(w) /\ Needed(w) \subseteq Dependents
  <2>1. Needed(Parent.print)' = Needed(w)
    BY <1>0 DEF Gentle, Needed, Dependencies
  <2> QED
    BY <2>1, DependenciesOf DEF ProvisionInv
<1>2. CASE Comes("parent")
  <2>1. kind = "job"
    BY <1>2 DEF Gentle, Parent
  <2> QED
    BY <1>1, <2>1, DependenciesOf DEF ProvisionInv
<1>3. CASE Lasts("parent")
  <2>1. /\ Parent.there /\ Parent.uid = Parent'.uid /\ Parent.print = Parent'.print
        /\ Parent.uid \notin robbed /\ Parent.uid \notin robbed'
    BY <1>3 DEF Lasts, Parent, Gentle
  <2>2. Ready
    BY <1>3, <2>1 DEF Gentle, ProvisionInv, OpenFirm, Parent
  <2>3. Firm(s)
    BY <1>0, <1>1, <2>1, <2>2 DEF Ready
  <2> QED
    BY <1>1, <1>3, <2>1, <2>3, FirmKept
<1>4. Lasts("parent") \/ Comes("parent")
  BY DEF Gentle, Goes, Parent, Slots
<1> QED
  BY <1>2, <1>3, <1>4

LEMMA KeysKept == ASSUME ProvisionInv, Gentle, UNCHANGED rekeyed PROVE KeysFit'
<1> SUFFICES ASSUME Parent'.there, Parent'.uid \in rekeyed, Parent'.uid \notin robbed'
             PROVE  Firm("configmap")' /\ objects'["configmap"].newkey
  BY DEF KeysFit
<1>1. Parent'.uid \in Nat /\ Parent'.uid <= made["parent"]
  BY DEF ProvisionInv, ProvisionTypeOK, UidsFit
<1>2. Lasts("parent") /\ Parent.there /\ Parent.uid = Parent'.uid
  BY <1>1, SameParent DEF ProvisionInv, Parent
<1>3. Parent.uid \notin robbed /\ Parent.uid \notin robbed'
  BY <1>2 DEF Gentle
<1>4. Firm("configmap") /\ objects["configmap"].newkey
  BY <1>2, <1>3 DEF ProvisionInv, KeysFit
<1>5. "configmap" \in Dependents
  BY DEF Dependents
<1>6. Lasts("configmap")
  BY <1>2, <1>3, <1>4, <1>5 DEF Gentle
<1> QED
  BY <1>2, <1>3, <1>4, <1>5, <1>6, FirmKept DEF Lasts

LEMMA ObjectsKept ==
  ASSUME ProvisionInv, Gentle, UNCHANGED rekeyed
  PROVE  UidsFit' /\ OpenFirm' /\ KeysFit'
<1>1. rekeyed' \subseteq Nat /\ \A u \in rekeyed' : u <= made["parent"]
  BY DEF ProvisionInv, ProvisionTypeOK, UidsFit
<1> QED
  BY <1>1, UidsKept, OpenKept, KeysKept
-----------------------------------------------------------------------------
(* From the objects and the record of the thread that moved to the whole.   *)

Budgets == [{"deletes", "events"} -> Nat]

LEMMA Spent ==
  ASSUME ProvisionTypeOK, NEW k \in {"deletes", "events"}, left[k] > 0,
         left' = [left EXCEPT ![k] = @ - 1]
  PROVE  left' \in Budgets
BY DEF ProvisionTypeOK, Budgets

LEMMA StepKept ==
  ASSUME ProvisionInv, Gentle, UidsFit', OpenFirm', KeysFit', rekeyed' \subseteq Nat,
         wanting' \in [Creators -> BOOLEAN], left' \in Budgets,
         \/ reqs' = reqs
         \/ \E t \in Threads : \E q : Continue(t, q) /\ Fits(t, q)'
  PROVE  ProvisionInv'
<1>1. \A t \in Threads : Fits(t, reqs[t])
  BY DEF ProvisionInv, ReqsFit
<1>2. reqs \in [Threads -> Requests]
  BY DEF ProvisionInv, ProvisionTypeOK, Requests, Copies
<1>3. ReqsFit' /\ reqs' \in [Threads -> Requests]
  <2>1. ASSUME NEW t \in Threads PROVE \A r : Fits(t, r) => Fits(t, r)'
    BY FitsKept DEF ProvisionInv
  <2>2. CASE reqs' = reqs
    <3> SUFFICES ASSUME NEW t \in Threads PROVE Fits(t, reqs[t])'
      BY <1>2, <2>2 DEF ReqsFit
    <3>1. PICK r : r = reqs[t]
      OBVIOUS
    <3>2. Fits(t, r)'
      BY <1>1, <2>1, <3>1
    <3> QED
      BY <2>2, <3>1, <3>2
  <2>3. ASSUME NEW t \in Threads, NEW q, Continue(t, q), Fits(t, q)'
        PROVE  ReqsFit' /\ reqs' \in [Threads -> Requests]
    <3>1. reqs' = [reqs EXCEPT ![t] = q]
      BY <2>3 DEF Continue
    <3>2. q \in Requests
      BY <2>3 DEF Fits
    <3>3. ASSUME NEW u \in Threads PROVE Fits(u, reqs[u])'
      <4>1. CASE u = t
        <5>1. reqs'[u] = q
          BY <1>2, <3>1, <4>1
        <5> QED
          BY <2>3, <4>1, <5>1
      <4>2. CASE u # t
        <5>1. PICK r : r = reqs[u]
          OBVIOUS
        <5>2. Fits(u, r)'
          BY <1>1, <2>1, <5>1
        <5>3. reqs'[u] = r
          BY <1>2, <3>1, <4>2, <5>1
        <5> QED
          BY <5>2, <5>3
      <4> QED
        BY <4>1, <4>2
    <3> QED
      BY <1>2, <3>1, <3>2, <3>3 DEF ReqsFit
  <2> QED
    BY <2>2, <2>3
<1>4. ProvisionTypeOK'
  BY <1>3 DEF ProvisionInv, ProvisionTypeOK, Gentle, Requests, Copies, Budgets
<1> QED
  BY <1>3, <1>4 DEF ProvisionInv

\* What nearly every step does: it does not rekey.
LEMMA StepFits ==
  ASSUME ProvisionInv, Gentle, UNCHANGED rekeyed,
         wanting' \in [Creators -> BOOLEAN], left' \in Budgets,
         \/ reqs' = reqs
         \/ \E t \in Threads : \E q : Continue(t, q) /\ Fits(t, q)'
  PROVE  ProvisionInv'
<1>1. UidsFit' /\ OpenFirm' /\ KeysFit' /\ rekeyed' \subseteq Nat
  BY ObjectsKept DEF ProvisionInv, ProvisionTypeOK
<1> QED
  BY <1>1, StepKept

LEMMA Still ==
  ASSUME ProvisionInv, UNCHANGED <<kind, want, objects, made>>,
         robbed' \subseteq Nat, robbed \subseteq robbed'
  PROVE  Gentle
<1>1. \A s \in Slots : Lasts(s) \/ Goes(s)
  BY DEF Lasts, Goes
<1>2. \A s \in Slots : made[s] \in Nat
  BY DEF ProvisionInv, ProvisionTypeOK
<1>3. ~Comes("parent")
  BY DEF Comes
<1>4. \A s \in Dependents : Firm(s) => Lasts(s) /\ ~objects'[s].ending
  BY DEF Firm, InPlace, Lasts
<1> QED
  BY <1>1, <1>2, <1>3, <1>4 DEF Gentle, ProvisionInv, ProvisionTypeOK, UidsFit

LEMMA IdleIs == Idle \in Requests /\ Idle.pc = "idle" /\ Idle.seen = Nothing /\ Nothing.uid = 0
BY Written DEF Idle, Requests, Copies, Nothing, Phases

LEMMA IdleFits == ASSUME Gentle, NEW t \in Threads PROVE Fits(t, Idle)'
<1>1. Idle \in Requests
  BY IdleIs
<1>2. Idle.pc = "idle" /\ Idle.seen.uid = 0
  BY IdleIs
<1>3. 0 <= made'["parent"]
  BY DEF Gentle, Slots
<1> QED
  BY <1>1, <1>2, <1>3 DEF Fits, Lookups, Turns

\* A request that ends, on a step that changes nothing of the workload.
LEMMA EndsFits ==
  ASSUME ProvisionInv, NEW t \in Threads, Finish(t), UNCHANGED <<kind, want, objects, made, history>>,
         wanting' \in [Creators -> BOOLEAN], left' \in Budgets
  PROVE  ProvisionInv'
<1>1. Gentle
  BY Still DEF history, ProvisionInv, ProvisionTypeOK
<1>2. Fits(t, Idle)' /\ Continue(t, Idle)
  BY <1>1, IdleFits DEF Finish
<1>3. \E u \in Threads : \E q : Continue(u, q) /\ Fits(u, q)'
  BY <1>2
<1> QED
  BY <1>1, <1>3, StepFits DEF history

-----------------------------------------------------------------------------
(* A create: on to the next dependency.                                     *)

LEMMA OnwardFits ==
  ASSUME ProvisionTypeOK, NEW t \in Creators, NEW r \in Requests, r.pc \in Lookups,
         r.seen.uid <= made'["parent"], "parent" \notin Ran(r.todo), Progress(t, r)',
         Gentle, Onward(t, r)
  PROVE  \E q : Continue(t, q) /\ Fits(t, q)'
<1>1. CASE r.todo # << >>
  <2> DEFINE q == [r EXCEPT !.pc = "get"]
  <2>1. Continue(t, q)
    BY <1>1 DEF Onward
  <2>2. q \in Requests /\ q.pc = "get" /\ q.todo = r.todo /\ q.seen = r.seen
    BY DEF Requests, Phases
  <2> HIDE DEF q
  <2>3. Fits(t, q)'
    BY <1>1, <2>2 DEF Fits, Progress, Lookups, Turns
  <2> QED
    BY <2>1, <2>3
<1>2. CASE r.todo = << >> /\ kind # "job"
  <2> DEFINE q == [r EXCEPT !.pc = "open"]
  <2>1. Continue(t, q)
    BY <1>2 DEF Onward
  <2>2. q \in Requests /\ q.pc = "open" /\ q.todo = r.todo /\ q.seen = r.seen
    BY DEF Requests, Phases
  <2> HIDE DEF q
  <2>3. Fits(t, q)'
    BY <1>2, <2>2 DEF Fits, Progress, Lookups, Turns
  <2> QED
    BY <2>1, <2>3
<1>3. CASE r.todo = << >> /\ kind = "job"
  <2>1. Continue(t, Idle)
    BY <1>3 DEF Onward, Finish
  <2> QED
    BY <2>1, IdleFits DEF Threads
<1> QED
  BY <1>1, <1>2, <1>3

\* What provision_object() takes over, or has made, counts as passed.
LEMMA PassedFits ==
  ASSUME ProvisionInv, Gentle, UidsFit', NEW t \in Creators, NEW r, r.pc \in Lookups, Fits(t, r),
         NEW o, o = objects'[At(r)], o.there,
         At(r) = "parent" => o.print = want[t],
         At(r) = "volume" =>
           o.ours /\ o.size = want[t].size /\ (o.ending => r.seen.uid \in robbed'),
         At(r) \in {"configmap", "service"} => ~o.ending /\ o.owner = r.seen.uid,
         Onward(t, Passed(r, o))
  PROVE  \E q : Continue(t, q) /\ Fits(t, q)'
<1> DEFINE p == Passed(r, o)
<1>0. ProvisionTypeOK
  BY DEF ProvisionInv
<1>1. Fits(t, r)'
  BY <1>0, FitsKept
<1>2. /\ r \in Requests /\ r.todo \in Seq(Slots) /\ r.todo # << >>
      /\ At(r) \in Slots /\ Tail(r.todo) \in Seq(Slots)
      /\ Ran(r.todo) = {At(r)} \cup Ran(Tail(r.todo))
  <2>1. r \in Requests /\ r.todo \in Seq(Slots) /\ r.todo # << >>
    BY DEF Fits, Requests
  <2> QED
    BY <2>1, TailOf DEF At
<1>3. o \in Objects
  <2>1. objects'[At(r)] \in Objects \cup {Absent}
    BY <1>2 DEF Gentle
  <2> QED
    BY <2>1 DEF Absent
<1>4. /\ p \in Requests /\ p.pc = r.pc /\ p.todo = Tail(r.todo)
      /\ At(r) # "parent" => p.seen = r.seen
      /\ At(r) = "parent" => p.seen.uid = o.uid
  <2>1. Copy(o) \in Copies /\ Copy(o).uid = o.uid
    BY <1>3 DEF Copy, Copies, Objects
  <2> HIDE DEF At
  <2> QED
    BY <1>2, <2>1 DEF Passed, Requests
<1>5. p.seen.uid <= made'["parent"]
  BY <1>1, <1>4 DEF Fits, UidsFit, Slots
<1>6. /\ "parent" \notin Ran(p.todo)
      /\ At(r) = "parent" => Ran(p.todo) = Needed(want[t])
  <2>1. Needed(want[t]) \subseteq Dependents
    BY <1>0, DependenciesOf
  <2>2. CASE At(r) = "parent"
    <3>1. Ran(Tail(r.todo)) = Needed(want[t])
      BY <1>2, <2>2 DEF Fits
    <3> QED
      BY <1>4, <2>1, <2>2, <3>1 DEF Dependents
  <2>3. CASE At(r) # "parent"
    BY <1>2, <1>4, <2>3 DEF Fits
  <2> QED
    BY <2>2, <2>3
<1>7. Progress(t, p)'
  <2> SUFFICES ASSUME Parent'.there, Parent'.uid = p.seen.uid, Parent'.uid \notin robbed'
               PROVE  /\ Parent'.print = want[t]
                      /\ \A s \in Needed(want[t]) \ Ran(p.todo) : Firm(s)'
    BY SameNeeds DEF Progress, Gentle
  <2>1. CASE At(r) = "parent"
    BY <1>6, <2>1 DEF Parent
  <2>2. CASE At(r) # "parent"
    <3>1. /\ Parent'.print = want[t]
          /\ \A s \in Needed(want[t]) \ Ran(r.todo) : Firm(s)'
      BY <1>1, <1>4, <2>2, SameNeeds DEF Fits, Progress, Gentle
    <3>2. Firm(At(r))'
      BY <1>2, <1>4, <2>2, <3>1 DEF Firm, InPlace, Parent, Slots
    <3>3. \A s \in Needed(want[t]) \ Ran(p.todo) : s = At(r) \/ s \notin Ran(r.todo)
      BY <1>2, <1>4
    <3> HIDE DEF p
    <3> QED
      BY <3>1, <3>2, <3>3
  <2> QED
    BY <2>1, <2>2
<1> HIDE DEF p
<1> QED
  BY <1>0, <1>4, <1>5, <1>6, <1>7, OnwardFits DEF p

\* GET, and what follows from it.
LEMMA LookupFits ==
  ASSUME ProvisionInv, NEW t \in Creators, NEW r, r.pc \in {"get", "reget"}, Fits(t, r),
         Lookup(t, r)
  PROVE  ProvisionInv'
<1> DEFINE o == objects[At(r)]
<1>0. /\ UNCHANGED <<kind, want, objects, made, left, rekeyed>>
      /\ r \in Requests /\ r.todo # << >> /\ At(r) \in Slots /\ t \in Threads
  <2>1. r \in Requests /\ r.todo \in Seq(Slots) /\ r.todo # << >>
    BY DEF Fits, Requests, Lookups
  <2> QED
    BY <2>1, TailOf DEF Lookup, At, Threads
<1>1. left' \in Budgets
  BY <1>0 DEF ProvisionInv, ProvisionTypeOK, Budgets
<1>2. CASE o.there /\ Adoptable(want[t], r, o) /\ Onward(t, Passed(r, o)) /\ Answered(t)
           /\ robbed' = IF At(r) = "volume" /\ o.ending THEN robbed \cup {r.seen.uid} ELSE robbed
  <2>1. robbed \subseteq robbed' /\ robbed' \subseteq Nat
    BY <1>0, <1>2 DEF ProvisionInv, ProvisionTypeOK, Requests, Copies
  <2>2. Gentle /\ UidsFit'
    BY <1>0, <2>1, Still, ObjectsKept
  <2>3. wanting' \in [Creators -> BOOLEAN]
    BY <1>2 DEF Answered, ProvisionInv, ProvisionTypeOK
  <2>4. /\ At(r) = "parent" => o.print = want[t]
        /\ At(r) = "volume" => o.ours /\ o.size = want[t].size
        /\ At(r) \in {"configmap", "service"} => ~o.ending /\ o.owner = r.seen.uid
    BY <1>2 DEF Adoptable
  <2>5. At(r) = "volume" /\ o.ending => r.seen.uid \in robbed'
    BY <1>2
  <2>6. o = objects'[At(r)] /\ o.there /\ Onward(t, Passed(r, o))
    BY <1>0, <1>2
  <2> HIDE DEF o
  <2>7. \E q : Continue(t, q) /\ Fits(t, q)'
    BY <2>2, <2>4, <2>5, <2>6, PassedFits DEF Lookups
  <2> QED
    BY <1>0, <1>1, <2>2, <2>3, <2>7, StepFits
<1>3. CASE Finish(t) /\ UNCHANGED <<wanting, robbed>>
  <2>1. wanting' \in [Creators -> BOOLEAN] /\ UNCHANGED history
    BY <1>0, <1>3 DEF ProvisionInv, ProvisionTypeOK, history
  <2> QED
    BY <1>0, <1>1, <1>3, <2>1, EndsFits
<1>4. CASE r.pc = "get" /\ UNCHANGED <<wanting, robbed>> /\ Continue(t, [r EXCEPT !.pc = "post"])
  <2>1. Gentle
    BY <1>0, <1>4, Still DEF ProvisionInv, ProvisionTypeOK
  <2> DEFINE q == [r EXCEPT !.pc = "post"]
  <2>2. /\ q \in Requests /\ q.pc = "post" /\ q.todo = r.todo /\ q.seen = r.seen
        /\ Continue(t, q)
    BY <1>0, <1>4 DEF Requests, Phases
  <2>3. Fits(t, r)'
    BY <2>1, FitsKept DEF ProvisionInv
  <2> HIDE DEF q
  <2>4. Fits(t, q)'
    BY <2>2, <2>3, <1>4 DEF Fits, Progress, Lookups, Turns, At
  <2> QED
    BY <1>0, <1>1, <1>4, <2>1, <2>2, <2>4, StepFits DEF ProvisionInv, ProvisionTypeOK
<1> QED
  BY <1>2, <1>3, <1>4 DEF Lookup

LEMMA BeginningFits ==
  ASSUME ProvisionInv, NEW t \in Creators
  PROVE  Fits(t, Beginning(want[t])) /\ Beginning(want[t]).pc = "get"
<1> DEFINE r == Beginning(want[t])
           d == Dependencies(want[t])
           q == <<"parent">> \o d
<1>1. d \in Seq(Slots) /\ Ran(d) = Needed(want[t])
  BY DependenciesOf DEF ProvisionInv
<1>2. "parent" \in Slots
  BY DEF Slots
<1> HIDE DEF d
<1>3. q \in Seq(Slots) /\ q # << >> /\ q[1] = "parent" /\ Ran(Tail(q)) = Needed(want[t])
  BY <1>1, <1>2, HeadOn
<1> HIDE DEF q
<1>4. r = [Idle EXCEPT !.pc = "get", !.todo = q]
  BY DEF Beginning, d, q
<1>5. r.pc = "get" /\ r.todo = q /\ r.seen = Nothing /\ r \in Requests
  BY <1>3, <1>4, IdleIs DEF Requests, Phases
<1>6. Nothing.uid = 0 /\ 0 <= made["parent"]
  BY <1>2 DEF Nothing, ProvisionInv, ProvisionTypeOK
<1> HIDE DEF r
<1>7. Progress(t, r)
  BY <1>5, <1>6, <1>2 DEF Progress, ProvisionInv, UidsFit, Parent
<1> QED
  BY <1>3, <1>5, <1>6, <1>7 DEF Fits, Lookups, Turns, At, r

LEMMA CreateBeginsFits ==
  ASSUME ProvisionInv, NEW t \in Creators, CreateBegins(t)
  PROVE  ProvisionInv'
<1>1. PICK r : r = Beginning(want[t])
  OBVIOUS
<1>2. Lookup(t, r) /\ Fits(t, r) /\ r.pc = "get"
  BY <1>1, BeginningFits DEF CreateBegins
<1> QED
  BY <1>2, LookupFits

LEMMA GetFits ==
  ASSUME ProvisionInv, NEW t \in Creators, Get(t)
  PROVE  ProvisionInv'
<1>1. PICK r : r = reqs[t]
  OBVIOUS
<1>2. Lookup(t, r) /\ Fits(t, r) /\ r.pc \in {"get", "reget"}
  BY <1>1 DEF Get, ProvisionInv, ReqsFit, Threads
<1> QED
  BY <1>2, LookupFits

LEMMA ObjectOf ==
  ASSUME NEW s, made[s] \in Nat, NEW u \in Nat, NEW w \in Settings \cup {NoPrint}
  PROVE  LET o == Object(s, u, w) IN
         /\ o \in Objects /\ o.uid = made[s] + 1 /\ o.owner = u /\ o.print = w /\ o.ours
         /\ ~o.open /\ ~o.ending
BY DEF Object, Objects

\* What a POST makes.
LEMMA NewOf ==
  ASSUME ProvisionInv, NEW t \in Creators, NEW r, Fits(t, r), r.pc = "post",
         NEW o, o = New(want[t], r)
  PROVE  /\ o \in Objects /\ o.there /\ o.uid = made[At(r)] + 1 /\ ~o.ending
         /\ o.owner <= made["parent"]
         /\ At(r) = "parent" => o.print = want[t] /\ (o.open => kind = "job")
         /\ At(r) = "volume" => o.ours /\ o.size = want[t].size
         /\ At(r) \in {"configmap", "service"} => o.owner = r.seen.uid
<1>0. At(r) \in Slots /\ made[At(r)] \in Nat /\ made["parent"] \in Nat
  <2>1. r.todo \in Seq(Slots) /\ r.todo # << >>
    BY DEF Fits, Requests, Lookups
  <2>2. At(r) \in Slots
    BY <2>1, TailOf DEF At
  <2> QED
    BY <2>2 DEF ProvisionInv, ProvisionTypeOK, Slots
<1>1. r.seen.uid \in Nat /\ r.seen.uid <= made["parent"]
  BY DEF Fits, Requests, Copies
<1>2. want[t] \in Settings /\ want[t].size \in Nat
  BY ProvisionConstants DEF ProvisionInv, ProvisionTypeOK
<1>3. CASE At(r) = "parent"
  <2>1. PICK b : b = Object("parent", 0, want[t])
    OBVIOUS
  <2>2. b \in Objects /\ b.uid = made["parent"] + 1 /\ b.owner = 0 /\ b.print = want[t] /\ ~b.ending
    <3>1. PICK w \in Settings \cup {NoPrint} : w = want[t]
      BY <1>2
    <3>2. b = Object("parent", 0, w) /\ 0 \in Nat /\ made["parent"] \in Nat
      BY <1>0, <2>1, <3>1
    <3>3. /\ b \in Objects /\ b.uid = made["parent"] + 1 /\ b.owner = 0 /\ b.print = w
          /\ ~b.ending
      BY <3>2, ObjectOf
    <3> QED
      BY <3>1, <3>3
  <2>3. o = [b EXCEPT !.open = (kind = "job")]
    BY <1>3, <2>1 DEF New
  <2>4. PICK k \in BOOLEAN : k = (kind = "job")
    OBVIOUS
  <2>5. /\ o \in Objects /\ o.uid = b.uid /\ o.owner = 0 /\ o.print = want[t] /\ ~o.ending
        /\ o.open = k
    BY <2>2, <2>3, <2>4 DEF Objects
  <2>6. o.there
    BY <2>5 DEF Objects
  <2>7. o.open => kind = "job"
    BY <2>4, <2>5, Zenon
  <2> QED
    BY <1>0, <1>3, <2>2, <2>5, <2>6, <2>7
<1>4. CASE At(r) = "volume"
  <2>1. PICK b : b = Object("volume", 0, NoPrint)
    OBVIOUS
  <2>2. b \in Objects /\ b.uid = made["volume"] + 1 /\ b.owner = 0 /\ b.ours /\ ~b.ending
    BY <1>0, <1>4, <2>1, ObjectOf
  <2>3. o = [b EXCEPT !.size = want[t].size]
    BY <1>4, <2>1 DEF New
  <2>4. /\ o \in Objects /\ o.uid = b.uid /\ o.owner = 0 /\ o.ours /\ ~o.ending
        /\ o.size = want[t].size
    BY <1>2, <2>2, <2>3 DEF Objects
  <2>5. o.there
    BY <2>4 DEF Objects
  <2> QED
    BY <1>0, <1>4, <2>2, <2>4, <2>5
<1>5. CASE At(r) \in {"configmap", "service"}
  <2>1. o = Object(At(r), r.seen.uid, NoPrint)
    BY <1>5 DEF New
  <2>2. o \in Objects /\ o.uid = made[At(r)] + 1 /\ o.owner = r.seen.uid /\ ~o.ending
    BY <1>0, <1>1, <2>1, ObjectOf
  <2>3. o.there
    BY <2>2 DEF Objects
  <2> QED
    BY <1>0, <1>1, <1>5, <2>2, <2>3
<1> QED
  BY <1>0, <1>3, <1>4, <1>5 DEF Slots

\* An object is put where none was.
LEMMA PostGentle ==
  ASSUME ProvisionInv, NEW s \in Slots, NEW o \in Objects, ~objects[s].there,
         o.uid = made[s] + 1, o.owner <= made["parent"], ~o.ending,
         s = "parent" /\ o.open => kind = "job",
         Post(s, o), UNCHANGED <<kind, want, robbed>>
  PROVE  Gentle
<1>1. /\ objects \in [Slots -> Objects \cup {Absent}] /\ made \in [Slots -> Nat]
      /\ robbed \subseteq Nat
  BY DEF ProvisionInv, ProvisionTypeOK
<1>2. /\ objects' = [objects EXCEPT ![s] = o] /\ made' = [made EXCEPT ![s] = @ + 1]
      /\ o.there
  BY DEF Post, Stored, Objects
<1>3. /\ objects' \in [Slots -> Objects \cup {Absent}] /\ made' \in [Slots -> Nat]
      /\ objects'[s] = o /\ made'[s] = made[s] + 1
      /\ \A u \in Slots \ {s} : objects'[u] = objects[u] /\ made'[u] = made[u]
  BY <1>1, <1>2
<1>4. Comes(s) /\ ~Lasts(s)
  BY <1>2, <1>3 DEF Comes, Lasts
<1>5. \A u \in Slots \ {s} : (Lasts(u) \/ Goes(u)) /\ ~Comes(u)
  BY <1>3 DEF Comes, Lasts, Goes
<1>6. \A u \in Slots : made[u] <= made'[u]
  BY <1>1, <1>3
<1>7. \A u \in {"configmap", "service"} : objects'[u].there => ~objects'[u].ending
  BY <1>3 DEF ProvisionInv, UidsFit, Slots
<1>8. \A u \in Dependents : Firm(u) => Lasts(u) /\ ~objects'[u].ending
  BY <1>3, <1>5 DEF Firm, InPlace, Goes, Dependents, Slots
<1>9. Comes("parent") /\ objects'["parent"].open => kind = "job"
  BY <1>3, <1>5 DEF Slots
<1>10. Lasts("parent") /\ objects'["parent"].open => objects["parent"].open
  BY <1>3, <1>4 DEF Slots
<1> QED
  BY <1>1, <1>3, <1>4, <1>5, <1>6, <1>7, <1>8, <1>9, <1>10 DEF Gentle

LEMMA MakeFits ==
  ASSUME ProvisionInv, NEW t \in Creators, Make(t)
  PROVE  ProvisionInv'
<1>1. PICK r : r = reqs[t]
  OBVIOUS
<1>2. /\ r.pc = "post" /\ Fits(t, r) /\ r \in Requests /\ r.todo # << >> /\ At(r) \in Slots
      /\ UNCHANGED <<kind, want, left, history>> /\ t \in Threads
  <2>1. r.pc = "post" /\ Fits(t, r) /\ UNCHANGED <<kind, want, left, history>> /\ t \in Threads
    BY <1>1 DEF Make, ProvisionInv, ReqsFit, Threads
  <2>2. r \in Requests /\ r.todo \in Seq(Slots) /\ r.todo # << >>
    BY <2>1 DEF Fits, Requests, Lookups
  <2> QED
    BY <2>1, <2>2, TailOf DEF At
<1>3. left' \in Budgets
  BY <1>2 DEF ProvisionInv, ProvisionTypeOK, Budgets
<1>4. CASE /\ ~Occupied(At(r)) /\ Post(At(r), New(want[t], r))
           /\ Onward(t, Passed(r, New(want[t], r))) /\ Answered(t)
  <2>1. PICK o : o = New(want[t], r)
    OBVIOUS
  <2>2. /\ o \in Objects /\ o.there /\ o.uid = made[At(r)] + 1 /\ ~o.ending
        /\ o.owner <= made["parent"]
        /\ At(r) = "parent" => o.print = want[t] /\ (o.open => kind = "job")
        /\ At(r) = "volume" => o.ours /\ o.size = want[t].size
        /\ At(r) \in {"configmap", "service"} => o.owner = r.seen.uid
    BY <1>2, <2>1, NewOf
  <2>3. Gentle
    BY <1>2, <1>4, <2>1, <2>2, PostGentle DEF Occupied, history
  <2>4. UidsFit'
    BY <1>2, <2>3, ObjectsKept DEF history
  <2>5. o = objects'[At(r)] /\ Onward(t, Passed(r, o))
    BY <1>2, <1>4, <2>1 DEF Post, Stored, ProvisionInv, ProvisionTypeOK
  <2>6. \E q : Continue(t, q) /\ Fits(t, q)'
    BY <1>2, <2>2, <2>3, <2>4, <2>5, PassedFits DEF Lookups
  <2>7. wanting' \in [Creators -> BOOLEAN]
    BY <1>4 DEF Answered, ProvisionInv, ProvisionTypeOK
  <2> QED
    BY <1>2, <1>3, <2>3, <2>6, <2>7, StepFits DEF history
<1>5. CASE UNCHANGED <<objects, made, wanting>> /\ Finish(t)
  <2>1. wanting' \in [Creators -> BOOLEAN]
    BY <1>5 DEF ProvisionInv, ProvisionTypeOK
  <2> QED
    BY <1>2, <1>3, <1>5, <2>1, EndsFits
<1>6. CASE UNCHANGED <<objects, made, wanting>> /\ Continue(t, [r EXCEPT !.pc = "reget"])
  <2>1. Gentle
    BY <1>2, <1>6, Still DEF ProvisionInv, ProvisionTypeOK, history
  <2> DEFINE q == [r EXCEPT !.pc = "reget"]
  <2>2. /\ q \in Requests /\ q.pc = "reget" /\ q.todo = r.todo /\ q.seen = r.seen
        /\ Continue(t, q)
    BY <1>2, <1>6 DEF Requests, Phases
  <2>3. Fits(t, r)'
    BY <1>2, <2>1, FitsKept DEF ProvisionInv
  <2> HIDE DEF q
  <2>4. Fits(t, q)'
    BY <1>2, <2>2, <2>3 DEF Fits, Progress, Lookups, Turns, At
  <2> QED
    BY <1>2, <1>3, <1>6, <2>1, <2>2, <2>4, StepFits DEF ProvisionInv, ProvisionTypeOK, history
<1> QED
  BY <1>1, <1>4, <1>5, <1>6 DEF Make

\* One object is replaced by a later state of itself, or goes.
LEMMA PutGentle ==
  ASSUME ProvisionInv, NEW s \in Slots, NEW o \in Objects \cup {Absent},
         objects[s].there, Stored(s, o), UNCHANGED <<kind, want, made>>,
         robbed' \subseteq Nat, robbed \subseteq robbed',
         o.there => /\ o.uid = objects[s].uid /\ o.owner = objects[s].owner
                    /\ o.print = objects[s].print /\ o.ours = objects[s].ours
                    /\ o.size = objects[s].size /\ (objects[s].newkey => o.newkey)
                    /\ o.ending => objects[s].ending \/ s \in {"parent", "volume"},
         s \in Dependents /\ Firm(s) /\ (o.there => o.ending)
           => ~Parent.there \/ Parent.uid \in robbed',
         s = "parent" /\ o.there /\ o.open => objects[s].open \/ Ready
  PROVE  Gentle
<1>1. /\ objects \in [Slots -> Objects \cup {Absent}] /\ made \in [Slots -> Nat]
      /\ robbed \subseteq Nat
  BY DEF ProvisionInv, ProvisionTypeOK
<1>2. /\ objects' \in [Slots -> Objects \cup {Absent}] /\ objects'[s] = o
      /\ \A u \in Slots \ {s} : objects'[u] = objects[u]
  BY <1>1 DEF Stored
<1>3. Lasts(s) \/ Goes(s)
  BY <1>1, <1>2 DEF Lasts, Goes
<1>4. \A u \in Slots \ {s} : Lasts(u) \/ Goes(u)
  BY <1>2 DEF Lasts, Goes
<1>5. \A u \in Slots : made[u] <= made'[u] /\ ~Comes(u)
  BY <1>1, <1>2, <1>4 DEF Comes
<1>6. \A u \in {"configmap", "service"} : objects'[u].there => ~objects'[u].ending
  BY <1>2 DEF ProvisionInv, UidsFit, Slots
<1>7. ASSUME Lasts("parent"), Parent.uid \notin robbed', NEW u \in Dependents, Firm(u)
      PROVE  Lasts(u) /\ ~objects'[u].ending
  <2>1. objects[u].there /\ ~objects[u].ending /\ Parent.there /\ u \in Slots
    BY <1>7 DEF Firm, InPlace, Lasts, Parent, Dependents, Slots
  <2>2. CASE u = s
    BY <1>2, <1>3, <1>7, <2>1, <2>2 DEF Goes
  <2>3. CASE u # s
    BY <1>2, <1>4, <2>1, <2>3 DEF Goes
  <2> QED
    BY <2>2, <2>3
<1>8. Lasts("parent") /\ objects'["parent"].open => objects["parent"].open \/ Ready
  BY <1>2 DEF Lasts, Slots
<1> QED
  BY <1>1, <1>2, <1>3, <1>4, <1>5, <1>6, <1>7, <1>8 DEF Gentle, Slots

LEMMA OpenFits ==
  ASSUME ProvisionInv, NEW t \in Creators, Open(t)
  PROVE  ProvisionInv'
<1>1. /\ reqs[t].pc = "open" /\ Finish(t) /\ UNCHANGED <<kind, want, made, left, history>>
      /\ t \in Threads
  BY DEF Open, Threads
<1>2. left' \in Budgets /\ wanting' \in [Creators -> BOOLEAN]
  BY DEF Open, ProvisionInv, ProvisionTypeOK, Budgets
<1>3. CASE UNCHANGED <<objects, wanting>>
  BY <1>1, <1>2, <1>3, EndsFits
<1>4. CASE /\ Patchable(Parent, reqs[t].seen)
           /\ Stored("parent", [Parent EXCEPT !.open = TRUE, !.rv = IF Parent.open THEN @ ELSE @ + 1])
  <2>1. Parent.there /\ Parent.uid = reqs[t].seen.uid
    BY <1>4 DEF Patchable, SameObject
  <2>2. Parent \in Objects
    BY <2>1 DEF ProvisionInv, ProvisionTypeOK, Slots, Absent, Parent
  <2>0. PICK v \in Nat : v = IF Parent.open THEN Parent.rv ELSE Parent.rv + 1
    BY <2>2 DEF Objects
  <2> DEFINE o == [Parent EXCEPT !.open = TRUE, !.rv = v]
  <2>3. /\ o \in Objects /\ o.there /\ o.uid = Parent.uid /\ o.owner = Parent.owner
        /\ o.print = Parent.print /\ o.ours = Parent.ours /\ o.size = Parent.size
        /\ o.newkey = Parent.newkey /\ o.ending = Parent.ending
    BY <2>2 DEF Objects
  <2>4. Stored("parent", o)
    BY <1>4, <2>0
  <2> HIDE DEF o
  <2>5. Ready
    <3>1. Fits(t, reqs[t])
      BY <1>1 DEF ProvisionInv, ReqsFit
    <3>2. Progress(t, reqs[t]) /\ Ran(reqs[t].todo) = {}
      BY <1>1, <3>1, NoneOf DEF Fits
    <3> QED
      BY <2>1, <3>2 DEF Ready, Progress
  <2>6. "parent" \in Slots /\ "parent" \notin Dependents /\ robbed' = robbed /\ robbed \subseteq Nat
    BY <1>1 DEF Slots, Dependents, history, ProvisionInv, ProvisionTypeOK
  <2>7. Gentle
    BY <1>1, <2>1, <2>3, <2>4, <2>5, <2>6, PutGentle DEF Parent
  <2>8. Continue(t, Idle) /\ Fits(t, Idle)'
    BY <1>1, <2>7, IdleFits DEF Finish
  <2>9. \E u \in Threads : \E q : Continue(u, q) /\ Fits(u, q)'
    BY <1>1, <2>8
  <2> QED
    BY <1>1, <1>2, <2>7, <2>9, StepFits DEF history
<1> QED
  BY <1>3, <1>4 DEF Open, Parent

LEMMA VolumeFits == ASSUME ProvisionInv, CreateVolume PROVE ProvisionInv'
<1>1. /\ ~objects["volume"].there /\ UNCHANGED <<kind, want, wanting, reqs, history>>
      /\ left' = [left EXCEPT !.events = @ - 1] /\ left.events > 0
  BY DEF CreateVolume, Occupied
<1>2. PICK size \in {w.size : w \in Settings} \ {0}, ours \in BOOLEAN :
        Post("volume", [Object("volume", 0, NoPrint) EXCEPT !.size = size, !.ours = ours])
  BY Zenon DEF CreateVolume
<1>3. PICK b : b = Object("volume", 0, NoPrint)
  OBVIOUS
<1>4. made["volume"] \in Nat /\ made["parent"] \in Nat /\ size \in Nat
  BY <1>2, ProvisionConstants DEF ProvisionInv, ProvisionTypeOK, Slots
<1>5. b \in Objects /\ b.uid = made["volume"] + 1 /\ b.owner = 0 /\ ~b.ending
  BY <1>3, <1>4, ObjectOf
<1>6. PICK o : o = [b EXCEPT !.size = size, !.ours = ours]
  OBVIOUS
<1>7. o \in Objects /\ o.uid = made["volume"] + 1 /\ o.owner = 0 /\ ~o.ending
  BY <1>4, <1>5, <1>6 DEF Objects
<1>8. Post("volume", o)
  BY <1>2, <1>3, <1>6
<1>9. "volume" \in Slots /\ "volume" # "parent"
  BY DEF Slots
<1>10. Gentle
  BY <1>1, <1>4, <1>7, <1>8, <1>9, PostGentle DEF history
<1>11. left' \in Budgets
  BY <1>1, Spent DEF ProvisionInv
<1>12. wanting' \in [Creators -> BOOLEAN]
  BY <1>1 DEF ProvisionInv, ProvisionTypeOK
<1> QED
  BY <1>1, <1>10, <1>11, <1>12, StepFits DEF history

-----------------------------------------------------------------------------
(* A delete.                                                                *)

LEMMA TurnFits ==
  ASSUME ProvisionTypeOK, Gentle, NEW t \in Threads, NEW r \in Requests, NEW todo \in Seq(Slots),
         r.seen.uid <= made'["parent"], Turn(t, r, todo)
  PROVE  \E q : Continue(t, q) /\ Fits(t, q)'
<1>1. CASE todo = << >>
  <2>1. Continue(t, Idle)
    BY <1>1 DEF Turn, Finish
  <2> QED
    BY <2>1, IdleFits
<1>2. CASE todo # << >> /\ todo[1] = "parent"
  <2> DEFINE q == [r EXCEPT !.pc = "remove", !.todo = todo, !.held = r.seen]
  <2>1. Continue(t, q)
    BY <1>2 DEF Turn
  <2>2. q \in Requests /\ q.pc = "remove" /\ q.todo = todo /\ q.seen = r.seen /\ q.held = r.seen
    BY DEF Requests, Phases
  <2> HIDE DEF q
  <2>3. At(q) = "parent"
    BY <1>2, <2>2 DEF At
  <2>4. HeldFits(q)'
    BY <2>2, <2>3 DEF HeldFits, At
  <2>5. Fits(t, q)'
    BY <1>2, <2>2, <2>4 DEF Fits, Lookups, Turns
  <2> QED
    BY <2>1, <2>5
<1>3. CASE todo # << >> /\ todo[1] # "parent"
  <2> DEFINE q == [r EXCEPT !.pc = "hold", !.todo = todo, !.held = Nothing]
  <2>1. Continue(t, q)
    BY <1>3 DEF Turn
  <2>2. q \in Requests /\ q.pc = "hold" /\ q.todo = todo /\ q.seen = r.seen
    BY DEF Requests, Phases, Nothing, Copies
  <2> HIDE DEF q
  <2>3. At(q) # "parent"
    BY <1>3, <2>2 DEF At
  <2>4. Fits(t, q)'
    BY <1>3, <2>2, <2>3 DEF Fits, Lookups, Turns, At
  <2> QED
    BY <2>1, <2>4
<1> QED
  BY <1>1, <1>2, <1>3

\* A delete request begins, with what it saw of the parent.
LEMMA ErasingFits ==
  ASSUME ProvisionInv, NEW t \in Threads, NEW r \in Requests, NEW todo \in Seq(Slots),
         r.seen.uid <= made["parent"], Turn(t, r, todo), left' \in Budgets,
         UNCHANGED <<kind, want, wanting, objects, made, history>>
  PROVE  ProvisionInv'
<1>1. Gentle /\ wanting' \in [Creators -> BOOLEAN]
  BY Still DEF history, ProvisionInv, ProvisionTypeOK
<1>2. \E q : Continue(t, q) /\ Fits(t, q)'
  BY <1>1, TurnFits DEF ProvisionInv
<1> QED
  BY <1>1, <1>2, StepFits DEF history

LEMMA DeleteBeginsFits == ASSUME ProvisionInv, NEW t \in Threads, DeleteBegins(t) PROVE ProvisionInv'
<1>1. left' \in Budgets /\ UNCHANGED <<kind, want, wanting, objects, made, history>>
  BY Spent DEF DeleteBegins, ProvisionInv
<1>2. made["parent"] \in Nat /\ "parent" \in Slots
  BY DEF ProvisionInv, ProvisionTypeOK, Slots
<1>3. CASE Turn(t, Idle, VolumeLast)
  BY <1>1, <1>2, <1>3, IdleIs, SidesOf, ErasingFits DEF ProvisionInv
<1>4. CASE Finish(t)
  BY <1>1, <1>4, EndsFits DEF ProvisionInv, ProvisionTypeOK
<1>5. CASE Parent.there /\ Turn(t, [Idle EXCEPT !.seen = Copy(Parent)], Sides \o <<"parent">> \o VolumeLast)
  <2>1. Parent \in Objects
    BY <1>2, <1>5 DEF ProvisionInv, ProvisionTypeOK, Absent, Parent
  <2>2. Copy(Parent) \in Copies /\ Copy(Parent).uid = Parent.uid
    BY <2>1 DEF Copy, Copies, Objects
  <2>3. PICK r : r = [Idle EXCEPT !.seen = Copy(Parent)]
    OBVIOUS
  <2>4. r \in Requests /\ r.seen.uid = Parent.uid
    BY <2>2, <2>3, IdleIs DEF Requests
  <2>5. r.seen.uid <= made["parent"]
    BY <1>2, <1>5, <2>4 DEF ProvisionInv, UidsFit, Parent
  <2>6. PICK todo : todo = Sides \o <<"parent">> \o VolumeLast
    OBVIOUS
  <2>7. todo \in Seq(Slots) /\ Turn(t, r, todo)
    BY <1>5, <2>3, <2>6, SidesOf DEF ProvisionInv
  <2> QED
    BY <1>1, <2>4, <2>5, <2>7, ErasingFits
<1> QED
  BY <1>3, <1>4, <1>5 DEF DeleteBegins, Parent

LEMMA DeleteVolumeBeginsFits ==
  ASSUME ProvisionInv, NEW t \in Threads, DeleteVolumeBegins(t)
  PROVE  ProvisionInv'
<1>1. /\ left' \in Budgets /\ UNCHANGED <<kind, want, wanting, objects, made, history>>
      /\ Turn(t, [Idle EXCEPT !.erase = "only"], <<"volume">>)
  <2>1. left.deletes > 0 /\ left' = [left EXCEPT !.deletes = @ - 1]
    BY DEF DeleteVolumeBegins
  <2>2. left' \in Budgets
    BY <2>1, Spent DEF ProvisionInv
  <2> QED
    BY <2>2, Zenon DEF DeleteVolumeBegins
<1>2. PICK r : r = [Idle EXCEPT !.erase = "only"]
  OBVIOUS
<1>3. r \in Requests /\ r.seen.uid = 0
  BY <1>2, IdleIs DEF Requests
<1>4. r.seen.uid <= made["parent"]
  BY <1>3 DEF ProvisionInv, ProvisionTypeOK, Slots
<1>5. <<"volume">> \in Seq(Slots)
  BY Written, SeqMonotonic DEF Dependents, Slots
<1> QED
  BY <1>1, <1>2, <1>3, <1>4, <1>5, ErasingFits

LEMMA HoldFits == ASSUME ProvisionInv, NEW t \in Threads, Hold(t) PROVE ProvisionInv'
<1>0. PICK r : r = reqs[t]
  OBVIOUS
<1> DEFINE o == objects[At(r)]
<1>1. /\ r.pc = "hold" /\ Fits(t, r) /\ UNCHANGED <<kind, want, wanting, objects, made, left, history>>
  BY <1>0 DEF Hold, ProvisionInv, ReqsFit
<1>2. /\ r \in Requests /\ r.todo \in Seq(Slots) /\ r.todo # << >> /\ At(r) \in Slots
      /\ Tail(r.todo) \in Seq(Slots) /\ r.seen.uid <= made["parent"]
  <2>1. r \in Requests /\ r.todo \in Seq(Slots) /\ r.todo # << >> /\ r.seen.uid <= made["parent"]
    BY <1>1 DEF Fits, Requests, Turns
  <2> QED
    BY <2>1, TailOf DEF At
<1>3. left' \in Budgets /\ wanting' \in [Creators -> BOOLEAN] /\ Gentle
  BY <1>1, Still DEF ProvisionInv, ProvisionTypeOK, Budgets, history
<1>4. CASE Turn(t, r, Tail(r.todo))
  BY <1>1, <1>2, <1>3, <1>4, ErasingFits
<1>5. ASSUME NEW e \in IF At(r) = "volume" THEN {"keep", "delete"} ELSE {"keep"},
             o.there, Removable(r, e, o),
             Continue(t, [r EXCEPT !.pc = "remove", !.held = Copy(o),
                            !.erase = IF @ = "only" THEN @ ELSE e])
      PROVE  ProvisionInv'
  <2>1. o \in Objects
    BY <1>2, <1>5 DEF ProvisionInv, ProvisionTypeOK, Absent
  <2>2. Copy(o) \in Copies /\ Copy(o).uid = o.uid
    BY <2>1 DEF Copy, Copies, Objects
  <2>3. PICK q : q = [r EXCEPT !.pc = "remove", !.held = Copy(o),
                        !.erase = IF @ = "only" THEN @ ELSE e]
    OBVIOUS
  <2>4. /\ q \in Requests /\ q.pc = "remove" /\ q.todo = r.todo /\ q.seen = r.seen
        /\ q.held.uid = o.uid /\ q.erase = IF r.erase = "only" THEN "only" ELSE e
    <3>1. e \in {"keep", "delete"}
      BY <1>5
    <3> HIDE DEF o
    <3> QED
      BY <1>2, <2>2, <2>3, <3>1 DEF Requests, Phases
  <2>5. At(q) = At(r)
    BY <2>4 DEF At
  <2>6. o.uid <= made[At(r)]
    BY <1>2, <1>5 DEF ProvisionInv, UidsFit
  <2>7. HeldFits(q)
    <3>1. At(r) \in {"volume", "configmap", "service"}
      BY <1>1, <1>2 DEF Fits, Slots
    <3>2. CASE At(r) = "volume"
      BY <1>5, <2>4, <2>5, <2>6, <3>2 DEF HeldFits, Removable
    <3>3. CASE At(r) # "volume"
      BY <1>5, <2>4, <2>5, <2>6, <3>1, <3>3 DEF HeldFits, Removable
    <3> QED
      BY <3>2, <3>3
  <2>8. Fits(t, q)
    BY <1>2, <2>4, <2>7 DEF Fits, Lookups, Turns
  <2>9. Fits(t, q)' /\ Continue(t, q)
    BY <1>3, <1>5, <2>3, <2>8, FitsKept DEF ProvisionInv
  <2> QED
    BY <1>1, <1>3, <2>9, StepFits DEF history
<1>6. PICK e \in IF At(r) = "volume" THEN {"keep", "delete"} ELSE {"keep"} :
        IF o.there /\ Removable(r, e, o)
        THEN Continue(t, [r EXCEPT !.pc = "remove", !.held = Copy(o),
                            !.erase = IF @ = "only" THEN @ ELSE e])
        ELSE Turn(t, r, Tail(r.todo))
  BY <1>0, Zenon DEF Hold
<1>7. CASE o.there /\ Removable(r, e, o)
  <2>1. Continue(t, [r EXCEPT !.pc = "remove", !.held = Copy(o),
                       !.erase = IF @ = "only" THEN @ ELSE e])
    BY <1>6, <1>7, Zenon
  <2> QED
    BY <1>5, <1>6, <1>7, <2>1, Zenon
<1>8. CASE ~(o.there /\ Removable(r, e, o))
  <2>1. Turn(t, r, Tail(r.todo))
    BY <1>6, <1>8, Zenon
  <2> QED
    BY <1>4, <2>1
<1> QED
  BY <1>7, <1>8

\* DELETE, by whoever calls it.
LEMMA DeleteGentle ==
  ASSUME ProvisionInv, NEW s \in Slots, objects[s].there, Delete(s), UNCHANGED <<kind, want, made>>
  PROVE  Gentle /\ \A u \in Slots \ {s} : objects'[u] = objects[u]
<1> DEFINE o == objects[s]
<1>1. o \in Objects
  BY DEF ProvisionInv, ProvisionTypeOK, Absent
<1>2. PICK v \in Nat : v = o.rv + 1
  <2>1. o.rv \in Nat
    BY <1>1 DEF Objects
  <2> QED
    BY <2>1
<1>3. PICK n : n = IF ~Graceful(s) THEN Absent ELSE IF o.ending THEN o
                   ELSE [o EXCEPT !.ending = TRUE, !.rv = v]
  OBVIOUS
<1>4. Stored(s, n)
  BY <1>2, <1>3 DEF Delete
<1>5. /\ n \in Objects \cup {Absent}
      /\ n.there => /\ n.uid = o.uid /\ n.owner = o.owner /\ n.print = o.print
                    /\ n.ours = o.ours /\ n.size = o.size /\ n.newkey = o.newkey
                    /\ n.open = o.open /\ n.ending /\ Graceful(s)
  <2>1. CASE ~Graceful(s)
    BY <1>3, <2>1 DEF Absent
  <2>2. CASE Graceful(s) /\ o.ending
    BY <1>1, <1>3, <2>2
  <2>3. CASE Graceful(s) /\ ~o.ending
    <3>1. n = [o EXCEPT !.ending = TRUE, !.rv = v]
      BY <1>3, <2>3
    <3> HIDE DEF o
    <3> QED
      BY <1>1, <2>3, <3>1 DEF Objects
  <2> QED
    BY <2>1, <2>2, <2>3
<1>6. s \in {"configmap", "service"} => robbed' = robbed \cup {o.owner}
  BY DEF Delete
<1>7. s = "volume" => robbed' = robbed \cup IF Parent.there THEN {Parent.uid} ELSE {}
  BY DEF Delete, Occupied, Parent
<1>8. s = "parent" => robbed' = robbed
  BY DEF Delete
<1>9. robbed' \subseteq Nat /\ robbed \subseteq robbed'
  <2>1. robbed \subseteq Nat /\ o.owner \in Nat
    BY <1>1 DEF ProvisionInv, ProvisionTypeOK, Objects
  <2>2. Parent.there => Parent.uid \in Nat
    <3> SUFFICES ASSUME Parent.there PROVE Parent.uid \in Nat
      OBVIOUS
    <3>1. Parent \in Objects
      BY DEF ProvisionInv, ProvisionTypeOK, Parent, Slots, Absent
    <3> QED
      BY <3>1 DEF Objects
  <2> HIDE DEF o
  <2> QED
    BY <1>6, <1>7, <1>8, <2>1, <2>2 DEF Slots
<1>10. s \in Dependents /\ Firm(s) => ~Parent.there \/ Parent.uid \in robbed'
  <2>1. CASE s = "volume"
    BY <1>7, <2>1
  <2>2. CASE s \in {"configmap", "service"}
    BY <1>6, <2>2 DEF Firm, InPlace
  <2> QED
    BY <2>1, <2>2 DEF Dependents
<1>11. Graceful(s) => s \in {"parent", "volume"}
  BY DEF Graceful
<1>12. s = "parent" /\ n.there /\ n.open => o.open
  BY <1>5
<1>13. Gentle
  BY <1>4, <1>5, <1>9, <1>10, <1>11, <1>12, PutGentle
<1>14. \A u \in Slots \ {s} : objects'[u] = objects[u]
  BY <1>4 DEF Stored, ProvisionInv, ProvisionTypeOK
<1> QED
  BY <1>13, <1>14

LEMMA RemoveFits == ASSUME ProvisionInv, NEW t \in Threads, Remove(t) PROVE ProvisionInv'
<1>0. PICK r : r = reqs[t]
  OBVIOUS
<1>1. /\ r.pc = "remove" /\ Fits(t, r) /\ UNCHANGED <<kind, want, wanting, made, left, rekeyed>>
  BY <1>0 DEF Remove, ProvisionInv, ReqsFit
<1>2. /\ r \in Requests /\ r.todo \in Seq(Slots) /\ r.todo # << >> /\ At(r) \in Slots
      /\ Tail(r.todo) \in Seq(Slots) /\ r.seen.uid <= made["parent"]
  <2>1. r \in Requests /\ r.todo \in Seq(Slots) /\ r.todo # << >> /\ r.seen.uid <= made["parent"]
    BY <1>1 DEF Fits, Requests, Turns
  <2> QED
    BY <2>1, TailOf DEF At
<1>3. left' \in Budgets /\ wanting' \in [Creators -> BOOLEAN]
  BY <1>1 DEF ProvisionInv, ProvisionTypeOK, Budgets
<1>4. CASE objects[At(r)].there /\ Delete(At(r)) /\ Turn(t, r, Tail(r.todo))
  <2>1. Gentle
    BY <1>1, <1>2, <1>4, DeleteGentle
  <2>2. r.seen.uid <= made'["parent"]
    BY <1>1, <1>2
  <2>3. \E q : Continue(t, q) /\ Fits(t, q)'
    BY <1>2, <1>4, <2>1, <2>2, TurnFits DEF ProvisionInv
  <2> QED
    BY <1>1, <1>3, <2>1, <2>3, StepFits
<1>5. CASE Finish(t) /\ UNCHANGED <<objects, robbed>>
  BY <1>1, <1>3, <1>5, EndsFits DEF history
<1> QED
  BY <1>0, <1>4, <1>5 DEF Remove

-----------------------------------------------------------------------------
(* A rotation.                                                              *)

LEMMA RotateBeginsFits == ASSUME ProvisionInv, NEW t \in Threads, RotateBegins(t) PROVE ProvisionInv'
<1>1. /\ left' \in Budgets /\ UNCHANGED <<kind, want, wanting, objects, made, history>>
      /\ Continue(t, Idle) \/ Continue(t, [Idle EXCEPT !.pc = "read"])
  BY Spent DEF RotateBegins, ProvisionInv
<1>2. wanting' \in [Creators -> BOOLEAN]
  BY <1>1 DEF ProvisionInv, ProvisionTypeOK
<1>3. CASE Continue(t, Idle)
  BY <1>1, <1>2, <1>3, EndsFits DEF Finish
<1>4. CASE Continue(t, [Idle EXCEPT !.pc = "read"])
  <2>1. PICK q : q = [Idle EXCEPT !.pc = "read"]
    OBVIOUS
  <2>2. q \in Requests /\ q.pc = "read" /\ q.seen.uid = 0
    BY <2>1, IdleIs DEF Requests, Phases
  <2>3. Gentle
    BY <1>1, Still DEF history, ProvisionInv, ProvisionTypeOK
  <2>4. 0 <= made'["parent"]
    BY <2>3 DEF Gentle, Slots
  <2>5. Fits(t, q)'
    BY <2>2, <2>4 DEF Fits, Lookups, Turns
  <2>6. Continue(t, q)
    BY <1>4, <2>1
  <2> QED
    BY <1>1, <1>2, <2>3, <2>5, <2>6, StepFits DEF history
<1> QED
  BY <1>1, <1>3, <1>4

LEMMA ReadKeysFits == ASSUME ProvisionInv, NEW t \in Threads, ReadKeys(t) PROVE ProvisionInv'
<1> DEFINE o == objects["configmap"]
<1>0. PICK r : r = reqs[t]
  OBVIOUS
<1>1. /\ r.pc = "read" /\ Fits(t, r) /\ UNCHANGED <<kind, want, wanting, objects, made, left, history>>
      /\ \/ Continue(t, Idle)
         \/ o.there /\ Continue(t, [r EXCEPT !.pc = "put", !.held = Copy(o)])
  BY <1>0 DEF ReadKeys, ProvisionInv, ReqsFit
<1>2. left' \in Budgets /\ wanting' \in [Creators -> BOOLEAN]
  BY <1>1 DEF ProvisionInv, ProvisionTypeOK, Budgets
<1>3. CASE Continue(t, Idle)
  BY <1>1, <1>2, <1>3, EndsFits DEF Finish
<1>4. CASE o.there /\ Continue(t, [r EXCEPT !.pc = "put", !.held = Copy(o)])
  <2>1. o \in Objects
    BY <1>4 DEF ProvisionInv, ProvisionTypeOK, Slots, Absent
  <2>2. Copy(o) \in Copies
    BY <2>1 DEF Copy, Copies, Objects
  <2>3. PICK q : q = [r EXCEPT !.pc = "put", !.held = Copy(o)]
    OBVIOUS
  <2> HIDE DEF o
  <2>4. q \in Requests /\ q.pc = "put" /\ q.seen = r.seen
    BY <1>1, <2>2, <2>3 DEF Fits, Requests, Phases
  <2>5. Gentle
    BY <1>1, Still DEF history, ProvisionInv, ProvisionTypeOK
  <2>6. Fits(t, q)'
    BY <1>1, <2>4 DEF Fits, Lookups, Turns
  <2>7. Continue(t, q)
    BY <1>4, <2>3
  <2> QED
    BY <1>1, <1>2, <2>5, <2>6, <2>7, StepFits DEF history
<1> QED
  BY <1>1, <1>3, <1>4

LEMMA PutKeysFits == ASSUME ProvisionInv, NEW t \in Threads, PutKeys(t) PROVE ProvisionInv'
<1> DEFINE c == objects["configmap"]
<1>1. Finish(t) /\ UNCHANGED <<kind, want, wanting, made, left, robbed>>
  BY DEF PutKeys
<1>2. left' \in Budgets /\ wanting' \in [Creators -> BOOLEAN]
  BY <1>1 DEF ProvisionInv, ProvisionTypeOK, Budgets
<1>3. CASE UNCHANGED <<objects, rekeyed>>
  BY <1>1, <1>2, <1>3, EndsFits DEF history
<1>4. CASE /\ c.there /\ rekeyed' = rekeyed \cup {c.owner}
           /\ Stored("configmap", [c EXCEPT !.newkey = TRUE, !.rv = @ + 1])
  <2>1. c \in Objects /\ ~c.ending /\ c.owner <= made["parent"]
    <3>1. c \in Objects
      BY <1>4 DEF ProvisionInv, ProvisionTypeOK, Slots, Absent
    <3> QED
      BY <1>4, <3>1 DEF ProvisionInv, UidsFit, Slots
  <2>2. PICK v \in Nat : v = c.rv + 1
    <3>1. c.rv \in Nat
      BY <2>1 DEF Objects
    <3> QED
      BY <3>1
  <2>3. PICK n : n = [c EXCEPT !.newkey = TRUE, !.rv = v]
    OBVIOUS
  <2>4. /\ n \in Objects /\ n.there /\ n.uid = c.uid /\ n.owner = c.owner /\ n.print = c.print
        /\ n.ours = c.ours /\ n.size = c.size /\ n.ending = c.ending
    <3> HIDE DEF c
    <3> QED
      BY <2>1, <2>2, <2>3 DEF Objects
  <2>5. n.newkey
    <3> HIDE DEF c
    <3> QED
      BY <2>1, <2>2, <2>3 DEF Objects
  <2>6. Stored("configmap", n)
    BY <1>4, <2>2, <2>3
  <2>7. "configmap" \in Slots /\ "configmap" # "parent" /\ "parent" \in Slots
    BY DEF Slots
  <2>8. robbed' = robbed /\ robbed \subseteq Nat
    BY <1>1 DEF ProvisionInv, ProvisionTypeOK
  <2>9. Gentle
    BY <1>1, <1>4, <2>1, <2>4, <2>5, <2>6, <2>7, <2>8, PutGentle
  <2>10. rekeyed' \subseteq Nat /\ \A u \in rekeyed' : u <= made["parent"]
    BY <1>4, <2>1 DEF ProvisionInv, ProvisionTypeOK, UidsFit, Objects
  <2>11. objects'["configmap"] = n /\ Parent' = Parent
    BY <2>6, <2>7 DEF Stored, ProvisionInv, ProvisionTypeOK, Parent
  <2>12. KeysFit'
    <3> SUFFICES ASSUME Parent.there, Parent.uid \in rekeyed', Parent.uid \notin robbed
                 PROVE  Firm("configmap")' /\ n.newkey
      BY <2>8, <2>11 DEF KeysFit
    <3>1. c.owner = Parent.uid
      BY <1>4 DEF ProvisionInv, KeysFit, Firm, InPlace
    <3> QED
      BY <2>1, <2>4, <2>5, <2>11, <3>1 DEF Firm, InPlace
  <2>13. Continue(t, Idle) /\ Fits(t, Idle)'
    BY <1>1, <2>9, IdleFits DEF Finish
  <2>14. \E u \in Threads : \E q : Continue(u, q) /\ Fits(u, q)'
    BY <2>13
  <2> QED
    BY <1>2, <2>9, <2>10, <2>12, <2>14, UidsKept, OpenKept, StepKept
<1> QED
  BY <1>3, <1>4 DEF PutKeys

-----------------------------------------------------------------------------
(* The cluster, and failures.                                               *)

\* An object that is gone, its parent having gone before it or itself being
\* on its way out.
LEMMA VanishesFits ==
  ASSUME ProvisionInv, NEW s \in Slots, Occupied(s), Stored(s, Absent),
         s \in Dependents /\ Firm(s) => ~Parent.there,
         UNCHANGED <<kind, want, wanting, made, reqs, left, history>>
  PROVE  ProvisionInv'
<1>1. Absent \in Objects \cup {Absent} /\ ~Absent.there
  BY DEF Absent
<1>2. robbed' \subseteq Nat /\ robbed \subseteq robbed' /\ UNCHANGED rekeyed
  BY DEF history, ProvisionInv, ProvisionTypeOK
<1>3. objects[s].there
  BY DEF Occupied
<1> HIDE DEF Absent
<1>4. Gentle
  BY <1>1, <1>2, <1>3, PutGentle
<1>5. wanting' \in [Creators -> BOOLEAN] /\ left' \in Budgets /\ reqs' = reqs
  BY DEF ProvisionInv, ProvisionTypeOK, Budgets
<1> QED
  BY <1>2, <1>4, <1>5, StepFits

LEMMA CollectFits == ASSUME ProvisionInv, NEW s \in Slots, Collect(s) PROVE ProvisionInv'
<1>1. Firm(s) => ~Parent.there
  BY DEF Collect, Firm, InPlace, Occupied, Parent
<1> QED
  BY <1>1, VanishesFits DEF Collect

LEMMA FinalizeFits == ASSUME ProvisionInv, NEW s \in Slots, Finalize(s) PROVE ProvisionInv'
<1>1. ~Firm(s)
  BY DEF Finalize, Firm
<1> QED
  BY <1>1, VanishesFits DEF Finalize

LEMMA EvictFits == ASSUME ProvisionInv, Evict PROVE ProvisionInv'
<1>1. /\ "parent" \in Slots /\ objects["parent"].there /\ Delete("parent")
      /\ UNCHANGED <<kind, want, wanting, made, reqs, rekeyed>>
      /\ left' = [left EXCEPT !.events = @ - 1] /\ left.events > 0
  BY DEF Evict, Slots, Occupied
<1>2. Gentle
  BY <1>1, DeleteGentle
<1>3. left' \in Budgets
  BY <1>1, Spent DEF ProvisionInv
<1>4. wanting' \in [Creators -> BOOLEAN]
  BY <1>1 DEF ProvisionInv, ProvisionTypeOK
<1> QED
  BY <1>1, <1>2, <1>3, <1>4, StepFits

LEMMA FailsFits == ASSUME ProvisionInv, NEW t \in Threads, Fails(t) PROVE ProvisionInv'
<1>1. Finish(t) /\ UNCHANGED <<kind, want, wanting, objects, made, history>> /\ left' \in Budgets
  BY Spent DEF Fails, ProvisionInv
<1>2. wanting' \in [Creators -> BOOLEAN]
  BY <1>1 DEF ProvisionInv, ProvisionTypeOK
<1> QED
  BY <1>1, <1>2, EndsFits

-----------------------------------------------------------------------------
(* What was there before.                                                   *)

LEMMA Before ==
  ASSUME NEW s \in Slots, made = [u \in Slots |-> 1], NEW o, o \in {Legacy(s), Foreign(s)}
  PROVE  /\ o \in Objects /\ o.there /\ o.uid = 1 /\ o.owner = 0 /\ o.print = NoPrint /\ ~o.ending
<1>1. made[s] = 1
  OBVIOUS
<1>2. PICK b : b = Object(s, 0, NoPrint)
  OBVIOUS
<1>3. b \in Objects /\ b.owner = 0 /\ b.print = NoPrint /\ ~b.ending
  BY <1>1, <1>2, ObjectOf
<1>4. PICK l : l = [b EXCEPT !.uid = 1, !.open = TRUE]
  OBVIOUS
<1>5. l = Legacy(s)
  BY <1>2, <1>4 DEF Legacy
<1>6. l \in Objects /\ l.there /\ l.uid = 1 /\ l.owner = 0 /\ l.print = NoPrint /\ ~l.ending
  BY <1>3, <1>4 DEF Objects
<1>7. PICK f : f = [l EXCEPT !.ours = FALSE]
  OBVIOUS
<1>8. f = Foreign(s)
  BY <1>5, <1>7 DEF Foreign
<1>9. f \in Objects /\ f.there /\ f.uid = 1 /\ f.owner = 0 /\ f.print = NoPrint /\ ~f.ending
  BY <1>6, <1>7 DEF Objects
<1> QED
  BY <1>5, <1>6, <1>8, <1>9

LEMMA InitFits == ASSUME Init PROVE ProvisionInv
<1>1. made = [s \in Slots |-> 1] /\ made \in [Slots -> Nat] /\ "parent" \in Slots
  BY DEF Init, Slots
<1>2. \A s \in Slots : objects[s] = Absent \/ objects[s] \in {Legacy(s), Foreign(s)}
  <2>1. objects \in InitialObjects
    BY DEF Init
  <2>2. CASE objects = [s \in Slots |-> Absent]
    BY <2>2
  <2>3. CASE objects = [s \in Slots |-> IF s \in Names \ {"volume"} THEN Legacy(s) ELSE Absent]
    BY <2>3
  <2>4. CASE \E f \in Names : objects = [s \in Slots |-> IF s = f THEN Foreign(s) ELSE Absent]
    BY <2>4
  <2> QED
    BY <2>1, <2>2, <2>3, <2>4 DEF InitialObjects
<1>3. ASSUME NEW s \in Slots, objects[s].there
      PROVE  /\ objects[s] \in Objects /\ objects[s].uid = 1 /\ objects[s].owner = 0
             /\ objects[s].print = NoPrint /\ ~objects[s].ending
  <2>1. objects[s] \in {Legacy(s), Foreign(s)}
    BY <1>2, <1>3 DEF Absent
  <2>2. PICK o : o = objects[s]
    OBVIOUS
  <2> QED
    BY <1>1, <2>1, <2>2, Before
<1>4. objects \in [Slots -> Objects \cup {Absent}]
  <2>1. \A s \in Slots : objects[s] \in Objects \cup {Absent}
    <3> TAKE s \in Slots
    <3>1. CASE objects[s] = Absent
      BY <3>1
    <3>2. CASE objects[s] \in {Legacy(s), Foreign(s)}
      <4>1. PICK o : o = objects[s]
        OBVIOUS
      <4> QED
        BY <1>1, <3>2, <4>1, Before
    <3> QED
      BY <1>2, <3>1, <3>2
  <2>2. objects \in InitialObjects
    BY DEF Init
  <2>3. objects = [s \in Slots |-> objects[s]]
    BY <2>2 DEF InitialObjects
  <2> HIDE DEF Slots
  <2> QED
    BY <2>1, <2>3
<1>5. ProvisionTypeOK
  <2>1. /\ kind \in Kinds /\ want \in [Creators -> Settings] /\ wanting \in [Creators -> BOOLEAN]
        /\ robbed \subseteq Nat /\ rekeyed \subseteq Nat
    BY ProvisionConstants DEF Init
  <2>2. left \in [{"deletes", "events"} -> Nat]
    BY ProvisionConstants DEF Init
  <2>3. reqs \in [Threads -> Requests]
    BY IdleIs DEF Init
  <2> QED
    BY <1>1, <1>4, <2>1, <2>2, <2>3 DEF ProvisionTypeOK, Requests, Copies
<1>6. UidsFit
  BY <1>1, <1>3 DEF UidsFit, Slots, Init
<1>7. ReqsFit
  <2> SUFFICES ASSUME NEW t \in Threads PROVE Fits(t, Idle)
    BY DEF ReqsFit, Init
  <2> QED
    BY <1>1, IdleIs DEF Fits, Lookups, Turns
<1>8. OpenFirm
  BY <1>1, <1>3 DEF OpenFirm, Parent
<1>9. KeysFit
  BY DEF KeysFit, Init
<1> QED
  BY <1>5, <1>6, <1>7, <1>8, <1>9 DEF ProvisionInv

LEMMA NextFits == ASSUME ProvisionInv, [Next]_vars PROVE ProvisionInv'
<1>1. ASSUME NEW t \in Creators, Create(t) PROVE ProvisionInv'
  BY <1>1, CreateBeginsFits, GetFits, MakeFits, OpenFits DEF Create
<1>2. ASSUME NEW t \in Deleters, DeleteBegins(t) \/ DeleteVolumeBegins(t) \/ Erase(t) PROVE ProvisionInv'
  <2>1. t \in Threads
    BY DEF Threads
  <2> QED
    BY <1>2, <2>1, DeleteBeginsFits, DeleteVolumeBeginsFits, HoldFits, RemoveFits DEF Erase
<1>3. ASSUME NEW t \in Rotators, RotateBegins(t) \/ Rotate(t) PROVE ProvisionInv'
  <2>1. t \in Threads
    BY DEF Threads
  <2> QED
    BY <1>3, <2>1, RotateBeginsFits, ReadKeysFits, PutKeysFits DEF Rotate
<1>4. CASE CreateVolume
  BY <1>4, VolumeFits
<1>5. CASE Cluster
  BY <1>5, CollectFits, FinalizeFits DEF Cluster
<1>6. CASE Evict
  BY <1>6, EvictFits
<1>7. ASSUME NEW t \in Threads, Fails(t) PROVE ProvisionInv'
  BY <1>7, FailsFits
<1>8. CASE UNCHANGED vars
  <2>1. /\ UNCHANGED <<kind, want, objects, made, rekeyed, robbed, wanting, left>> /\ reqs' = reqs
    BY <1>8 DEF vars
  <2>2. /\ robbed' \subseteq Nat /\ robbed \subseteq robbed' /\ left' \in Budgets
        /\ wanting' \in [Creators -> BOOLEAN]
    BY <2>1 DEF ProvisionInv, ProvisionTypeOK, Budgets
  <2>3. Gentle
    BY <2>1, <2>2, Still
  <2> QED
    BY <2>1, <2>2, <2>3, StepFits
<1> QED
  BY <1>1, <1>2, <1>3, <1>4, <1>5, <1>6, <1>7, <1>8 DEF Next

\* What the proofs below all rest on: the provisioning invariant holds of
\* every state of the portal's requests and of the objects they make.
THEOREM Provisioned == Spec => []ProvisionInv
<1>1. Init => ProvisionInv
  BY InitFits
<1>2. ProvisionInv /\ [Next]_vars => ProvisionInv'
  BY NextFits
<1> QED
  BY <1>1, <1>2, PTL DEF Spec

-----------------------------------------------------------------------------
(* What follows.                                                            *)

\* Types: whatever the requests do, and every fingerprint stored on an object
\* is that of a request a client sends (tenant_portal.py, provision_object()).
THEOREM ProvisionTypes == Spec => []ProvisionTypeOK
<1>1. ProvisionInv => ProvisionTypeOK
  BY DEF ProvisionInv
<1> QED
  BY <1>1, Provisioned, PTL

\* A workload whose gate was opened has every dependency its request named,
\* its own and not another request's, unless a delete request took one: for
\* any number of clients retrying, deletes, rotations, evictions, failures.
THEOREM OpenedComplete == Spec => []OpenComplete
<1>1. ProvisionInv => OpenComplete
  BY DEF ProvisionInv, OpenFirm, Ready, Firm, OpenComplete
<1> QED
  BY <1>1, Provisioned, PTL

\* A key that was replaced stays replaced while its machine has its key file:
\* no retry of the create that wrote the old key writes it again.
THEOREM KeyStaysOut == Spec => []RevokedKeyStaysOut
<1>1. ProvisionInv => RevokedKeyStaysOut
  BY DEF ProvisionInv, KeysFit, RevokedKeyStaysOut
<1> QED
  BY <1>1, Provisioned, PTL

\* A step that changes the record of a removing thread is its own removal, or
\* leaves the objects alone.
LEMMA Removals ==
  ASSUME ProvisionInv, Next, NEW t \in Threads, reqs[t].pc = "remove", reqs'[t] # reqs[t]
  PROVE  Remove(t) \/ UNCHANGED objects
<1>0. reqs \in [Threads -> Requests]
  BY DEF ProvisionInv, ProvisionTypeOK, Requests, Copies
<1>1. ASSUME NEW u \in Threads, NEW q, Continue(u, q) PROVE u = t
  BY <1>0, <1>1 DEF Continue
<1>2. ASSUME NEW u \in Creators, Create(u) PROVE FALSE
  <2>1. u \in Threads
    BY DEF Threads
  <2>2. \E q : Continue(u, q)
    <3>1. ASSUME NEW r, Onward(u, r) PROVE \E q : Continue(u, q)
      BY <3>1 DEF Onward, Finish
    <3>2. ASSUME NEW r, Lookup(u, r) PROVE \E q : Continue(u, q)
      BY <3>1, <3>2 DEF Lookup, Finish
    <3>3. CASE CreateBegins(u)
      BY <3>2, <3>3 DEF CreateBegins
    <3>4. CASE Get(u)
      BY <3>2, <3>4 DEF Get
    <3>5. CASE Make(u)
      BY <3>1, <3>5 DEF Make, Finish
    <3>6. CASE Open(u)
      BY <3>6 DEF Open, Finish
    <3> QED
      BY <1>2, <3>3, <3>4, <3>5, <3>6 DEF Create
  <2> QED
    BY <1>1, <1>2, <2>1, <2>2 DEF Create, CreateBegins, Get, Make, Open
<1>3. ASSUME NEW u \in Deleters, DeleteBegins(u) \/ DeleteVolumeBegins(u) \/ Hold(u)
      PROVE  UNCHANGED objects
  <2>1. CASE DeleteBegins(u)
    BY <2>1 DEF DeleteBegins
  <2>2. CASE DeleteVolumeBegins(u)
    BY <2>2 DEF DeleteVolumeBegins
  <2>3. CASE Hold(u)
    BY <2>3, Zenon DEF Hold
  <2> QED
    BY <1>3, <2>1, <2>2, <2>3
<1>4. ASSUME NEW u \in Deleters, Remove(u) PROVE Remove(t)
  <2>1. u \in Threads
    BY DEF Threads
  <2>2. \A r, d : Turn(u, r, d) => \E q : Continue(u, q)
    BY DEF Turn, Finish
  <2>3. \E q : Continue(u, q)
    BY <1>4, <2>2 DEF Remove, Finish
  <2> QED
    BY <1>1, <1>4, <2>1, <2>3
<1>5. ASSUME NEW u \in Rotators, RotateBegins(u) \/ ReadKeys(u) PROVE UNCHANGED objects
  BY <1>5 DEF RotateBegins, ReadKeys
<1>6. ASSUME NEW u \in Rotators, PutKeys(u) PROVE FALSE
  <2>1. u \in Threads /\ Continue(u, Idle) /\ reqs[u].pc = "put"
    BY <1>6 DEF PutKeys, Finish, Threads
  <2> QED
    BY <1>1, <2>1
<1>7. CASE CreateVolume \/ Cluster \/ Evict
  <2>1. reqs' = reqs
    BY <1>7, Zenon DEF CreateVolume, Cluster, Collect, Finalize, Evict
  <2> QED
    BY <2>1
<1>8. ASSUME NEW u \in Threads, Fails(u) PROVE UNCHANGED objects
  BY <1>8 DEF Fails
<1> QED
  BY <1>2, <1>3, <1>4, <1>5, <1>6, <1>7, <1>8 DEF Next, Erase, Rotate

\* A delete request takes the very object it read; of a workload no more than
\* the parent it looked at, what that parent owns or nobody does, and a volume
\* with the label if it was asked to (delete_workload()).
THEOREM OthersSpared == Spec => SparesOthers
<1> DEFINE Mine(t, s) ==
      CASE s = "parent" -> objects[s].uid = reqs[t].seen.uid
        [] s = "volume" -> reqs[t].erase = "delete" /\ objects[s].ours
        [] OTHER        -> OfParent(objects[s], reqs[t].seen)
    Spare ==
      \A t \in Deleters, s \in Slots :
        reqs[t].pc = "remove" /\ reqs'[t] # reqs[t] /\ Taken(s) =>
          /\ objects[s].uid = reqs[t].held.uid
          /\ reqs[t].erase # "only" => Mine(t, s)
<1>1. ASSUME ProvisionInv, Next PROVE Spare
  <2> SUFFICES ASSUME NEW t \in Deleters, NEW s \in Slots, reqs[t].pc = "remove",
                      reqs'[t] # reqs[t], Taken(s)
               PROVE  objects[s].uid = reqs[t].held.uid /\ (reqs[t].erase # "only" => Mine(t, s))
    BY Zenon
  <2>0. PICK r : r = reqs[t]
    OBVIOUS
  <2>1. t \in Threads
    BY DEF Threads
  <2>2. Remove(t) \/ UNCHANGED objects
    BY <1>1, <2>1, Removals
  <2>3. ~ UNCHANGED objects
    BY DEF Taken, Occupied
  <2>4. /\ r.pc = "remove" /\ Fits(t, r) /\ HeldFits(r)
        /\ r.todo \in Seq(Slots) /\ r.todo # << >> /\ At(r) \in Slots
    <3>1. Fits(t, r)
      BY <1>1, <2>0, <2>1 DEF ProvisionInv, ReqsFit
    <3>2. r.todo \in Seq(Slots) /\ r.todo # << >> /\ HeldFits(r)
      BY <2>0, <3>1 DEF Fits, Requests, Turns
    <3> QED
      BY <2>0, <3>1, <3>2, TailOf DEF At
  <2>5. /\ objects[At(r)].there /\ objects[At(r)].uid = r.held.uid /\ Delete(At(r))
        /\ UNCHANGED <<kind, want, made>>
    BY <2>0, <2>2, <2>3 DEF Remove, Precondition, Unchanged, SameObject
  <2>6. At(r) = s
    <3>1. \A u \in Slots \ {At(r)} : objects'[u] = objects[u]
      BY <1>1, <2>4, <2>5, DeleteGentle
    <3> QED
      BY <3>1 DEF Taken, Occupied
  <2>7. objects[s].uid = reqs[t].held.uid
    BY <2>0, <2>5, <2>6
  <2> SUFFICES ASSUME reqs[t].erase # "only" PROVE Mine(t, s)
    BY <2>7
  <2>8. CASE s = "parent"
    <3>1. objects[s].uid = reqs[t].seen.uid
      BY <2>0, <2>4, <2>5, <2>6, <2>8 DEF HeldFits
    <3> QED
      BY <2>8, <3>1
  <2>9. CASE s = "volume"
    <3>1. reqs[t].erase = "delete" /\ objects[s].ours
      BY <2>0, <2>4, <2>5, <2>6, <2>9 DEF HeldFits, Held
    <3> QED
      BY <2>9, <3>1
  <2>10. CASE s \in {"configmap", "service"}
    <3>1. OfParent(objects[s], reqs[t].seen)
      BY <2>0, <2>4, <2>5, <2>6, <2>10 DEF HeldFits, Held
    <3>2. s # "parent" /\ s # "volume"
      BY <2>10
    <3> QED
      BY <3>1, <3>2
  <2> QED
    BY <2>8, <2>9, <2>10 DEF Slots
<1>2. ProvisionInv /\ [Next]_vars => [Spare]_vars
  BY <1>1
<1>3. Spec => [][Spare]_vars
  BY <1>2, Provisioned, PTL DEF Spec
<1> QED
  BY <1>3 DEF SparesOthers
=============================================================================
