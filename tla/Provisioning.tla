---------------------------- MODULE Provisioning ----------------------------
(***************************************************************************)
(* services/tenant-portal: how a workload of one name is created, resumed, *)
(* rotated and deleted.  Every request is a thread of the portal; every    *)
(* call of the API server is a step of its own, and between two calls      *)
(* other requests, the garbage collector, the kubelet and failures may     *)
(* come.  The API server's objects are the only state: the portal keeps    *)
(* none.  Manifests, quantities and answers' texts are left out.           *)
(***************************************************************************)
EXTENDS Integers, Sequences, FiniteSets

CONSTANTS
  Creators,     \* clients that create, each retrying one request until it is answered 201
  Deleters,     \* requests that delete
  Rotators,     \* requests that replace the SSH key
  Kinds,        \* workload kinds: subset of {"devmachine", "service", "job"}
  Settings,     \* what a create asks for: [size : Nat, ssh : BOOLEAN, gpu : Nat]
  Wants,        \* which creators may ask for what: a set of [Creators -> Settings]
  Hard,         \* the namespace's GPU quota
  MaxDeletes,   \* bound on delete requests
  MaxEvents     \* bound on rotations, volumes, evictions and failures together

ASSUME ProvisionConstants ==
  /\ Kinds \subseteq {"devmachine", "service", "job"}
  /\ Settings \subseteq [size : Nat, ssh : BOOLEAN, gpu : Nat]
  /\ Wants \subseteq [Creators -> Settings]
  /\ {Hard, MaxDeletes, MaxEvents} \subseteq Nat

VARIABLES
  kind,      \* the workload's kind
  want,      \* creator -> its request, fixed by the client
  wanting,   \* creator -> still retrying
  objects,   \* slot -> the object under that name, or Absent
  made,      \* slot -> the last uid given out
  reqs,      \* thread -> where its request stands
  left,      \* what is left of the bounds
  robbed,    \* history: parents whose dependency a delete request took
  rekeyed    \* history: parents whose SSH key a rotation replaced

vars == <<kind, want, wanting, objects, made, reqs, left, robbed, rekeyed>>
history == <<robbed, rekeyed>>

Threads == Creators \cup Deleters \cup Rotators
Slots   == {"parent", "volume", "configmap", "service"}
Absent  == [there |-> FALSE]
NoPrint == [size |-> -1, ssh |-> FALSE, gpu |-> 0]
Objects == [there : {TRUE},
            uid : Nat, rv : Nat,
            owner : Nat,             \* uid of the parent in ownerReferences, 0: none
            print : Settings \cup {NoPrint},  \* the request's sha256
            ours : BOOLEAN,          \* carries this workload's labels
            open : BOOLEAN,          \* parent: no scheduling gate; replicas set
            ending : BOOLEAN,        \* has a deletionTimestamp
            size : Nat,              \* volume: size and class
            newkey : BOOLEAN]        \* configmap: a rotated key

Object(s, owner, print) ==
  [there |-> TRUE, uid |-> made[s] + 1, rv |-> 0, owner |-> owner, print |-> print,
   ours |-> TRUE, open |-> FALSE, ending |-> FALSE, size |-> 0, newkey |-> FALSE]

\* What was there before: nothing; a machine from before ownerReferences; or
\* somebody else's object under a name the workload would take.  That object
\* stands for a workload of another kind: a machine x and a service x-ssh both
\* want Service x-ssh, and no request for the other one comes while this runs.
Legacy(s)  == [Object(s, 0, NoPrint) EXCEPT !.uid = 1, !.open = TRUE]
Foreign(s) == [Legacy(s) EXCEPT !.ours = FALSE]
Names ==
  CASE kind = "devmachine" -> Slots
    [] kind = "service"    -> {"parent", "service"}
    [] kind = "job"        -> {"parent"}
InitialObjects ==
  { [s \in Slots |-> Absent],
    [s \in Slots |-> IF s \in Names \ {"volume"} THEN Legacy(s) ELSE Absent] }
  \cup {[s \in Slots |-> IF s = f THEN Foreign(s) ELSE Absent] : f \in Names}

\* `erase`: what a delete request does to the volume: "only": it is of the
\* volume itself; ?deleteVolume is read, and chosen, when the volume's turn comes.
Nothing == [uid |-> 0, rv |-> 0]
Idle == [pc |-> "idle", todo |-> << >>, seen |-> Nothing, held |-> Nothing, erase |-> "keep"]

Init ==
  /\ kind \in Kinds
  /\ want \in Wants /\ wanting = [c \in Creators |-> TRUE]
  /\ made = [s \in Slots |-> 1] /\ objects \in InitialObjects
  /\ reqs = [t \in Threads |-> Idle]
  /\ left = [deletes |-> MaxDeletes, events |-> MaxEvents]
  /\ robbed = {} /\ rekeyed = {}

-----------------------------------------------------------------------------
(* The API server: what one call does.                                     *)

Occupied(s) == objects[s].there
Stored(s, o) == objects' = [objects EXCEPT ![s] = o]

Post(s, o) ==
  /\ Stored(s, o)
  /\ made' = [made EXCEPT ![s] = @ + 1]

\* What a request keeps of an object it has read.
Copy(o) == [uid |-> o.uid, rv |-> o.rv]
SameObject(o, held) == o.there /\ o.uid = held.uid
Unchanged(o, held)  == SameObject(o, held) /\ o.rv = held.rv

\* DELETE: a pod that may run stops first, a volume waits for its protection
\* finalizer; anything else is gone at once.
Graceful(s) == \/ s = "volume"
               \/ s = "parent" /\ kind = "devmachine" /\ objects[s].open
Delete(s) ==
  LET o == objects[s] IN
  /\ Stored(s, IF ~Graceful(s) THEN Absent ELSE IF o.ending THEN o
               ELSE [o EXCEPT !.ending = TRUE, !.rv = @ + 1])
  /\ robbed' = robbed \cup
       CASE s = "parent" -> {}
         [] s = "volume" -> IF Occupied("parent") THEN {objects["parent"].uid} ELSE {}
         [] OTHER        -> {o.owner}

-----------------------------------------------------------------------------
(* What a request is made of.                                              *)

\* gpu_ok(): the request alone is held against the quota, not what is used.
GpuOk(w) == w.gpu <= Hard

\* The dependencies of a workload, in the order they are provisioned.
Dependencies(w) ==
  CASE kind = "devmachine" -> (IF w.size > 0 THEN <<"volume">> ELSE << >>)
                              \o (IF w.ssh THEN <<"configmap", "service">> ELSE << >>)
    [] kind = "service"    -> <<"service">>
    [] kind = "job"        -> << >>

\* delete_workload()'s `sides`.
Sides == CASE kind = "devmachine" -> <<"configmap", "service">>
           [] kind = "service"    -> <<"service">>
           [] kind = "job"        -> << >>

Continue(t, r) == reqs' = [reqs EXCEPT ![t] = r]
Finish(t)      == Continue(t, Idle)

\* On to the next dependency, then to the gate; a job has none.
Onward(t, r) ==
  IF r.todo # << >> THEN Continue(t, [r EXCEPT !.pc = "get"])
  ELSE IF kind # "job" THEN Continue(t, [r EXCEPT !.pc = "open"]) ELSE Finish(t)

At(r) == r.todo[1]
Passed(r, current) ==
  [r EXCEPT !.todo = Tail(@), !.seen = IF At(r) = "parent" THEN Copy(current) ELSE @]

\* Mutant: a retry does not know its own objects.
AdoptNothing(w, r, o) == At(r) = "volume" /\ o.ours /\ o.size = w.size

\* provision_object() after its GET, and create_devmachine()'s own checks of
\* an existing volume, which looks at its label and size only.
Adoptable(w, r, o) ==
  CASE At(r) = "parent" -> ~o.ending /\ o.print = w
    [] At(r) = "volume" -> o.ours /\ o.size = w.size
    [] OTHER            -> ~o.ending /\ o.owner = r.seen.uid

\* Mutant: the fingerprint is taken after the quantities are defaulted.
NewDefaulted(w, r) ==
  CASE At(r) = "parent" -> [Object("parent", 0, [w EXCEPT !.gpu = 0]) EXCEPT !.open = (kind = "job")]
    [] At(r) = "volume" -> [Object("volume", 0, NoPrint) EXCEPT !.size = w.size]
    [] OTHER            -> Object(At(r), r.seen.uid, NoPrint)

New(w, r) ==
  CASE At(r) = "parent" -> [Object("parent", 0, w) EXCEPT !.open = (kind = "job")]
    [] At(r) = "volume" -> [Object("volume", 0, NoPrint) EXCEPT !.size = w.size]
    [] OTHER            -> Object(At(r), r.seen.uid, NoPrint)

-----------------------------------------------------------------------------
(* create_devmachine(), create_service(), create_job().                    *)

Beginning(w) == [Idle EXCEPT !.pc = "get", !.todo = <<"parent">> \o Dependencies(w)]

\* The parent of a job is all of it: the client is answered.
Answered(t) == wanting' = [wanting EXCEPT ![t] = @ /\ kind # "job"]

\* Mutant: what exists is overwritten with the manifest.
LookupOverwrites(t, r) ==
  /\ LET o == objects[At(r)] IN
     \/ /\ o.there /\ Adoptable(want[t], r, o) /\ Onward(t, Passed(r, o)) /\ Answered(t)
        /\ Stored(At(r), [o EXCEPT !.newkey = FALSE]) /\ UNCHANGED robbed
     \/ /\ o.there /\ ~Adoptable(want[t], r, o) /\ Finish(t) /\ UNCHANGED <<wanting, objects, robbed>>
     \/ /\ ~o.there /\ UNCHANGED <<wanting, objects, robbed>>
        /\ IF r.pc = "get" THEN Continue(t, [r EXCEPT !.pc = "post"]) ELSE Finish(t)
  /\ UNCHANGED <<kind, want, made, left, rekeyed>>

\* GET of the next object; with that of the parent the request begins.
\* History: a volume that is being deleted is taken as it is.
Lookup(t, r) ==
  /\ LET o == objects[At(r)] IN
     \/ /\ o.there /\ Adoptable(want[t], r, o) /\ Onward(t, Passed(r, o)) /\ Answered(t)
        /\ robbed' = IF At(r) = "volume" /\ o.ending THEN robbed \cup {r.seen.uid} ELSE robbed
     \/ /\ o.there /\ ~Adoptable(want[t], r, o) /\ Finish(t) /\ UNCHANGED <<wanting, robbed>>
     \/ /\ ~o.there /\ UNCHANGED <<wanting, robbed>>
        /\ IF r.pc = "get" THEN Continue(t, [r EXCEPT !.pc = "post"]) ELSE Finish(t)
  /\ UNCHANGED <<kind, want, objects, made, left, rekeyed>>

CreateBegins(t) ==
  /\ reqs[t].pc = "idle" /\ wanting[t] /\ GpuOk(want[t])
  /\ Lookup(t, Beginning(want[t]))

\* "reget": the GET after a conflicting POST.
Get(t) == reqs[t].pc \in {"get", "reget"} /\ Lookup(t, reqs[t])

\* POST.  A conflict on the volume ends the request: it is to be retried.
Make(t) ==
  /\ reqs[t].pc = "post"
  /\ LET r == reqs[t] IN
     \/ /\ ~Occupied(At(r))
        /\ Post(At(r), New(want[t], r)) /\ Onward(t, Passed(r, New(want[t], r))) /\ Answered(t)
     \/ /\ Occupied(At(r)) /\ UNCHANGED <<objects, made, wanting>>
        /\ IF At(r) = "volume" THEN Finish(t) ELSE Continue(t, [r EXCEPT !.pc = "reget"])
  /\ UNCHANGED <<kind, want, left, history>>

\* Mutant: the PATCH goes by name.
PatchAny(o, seen) == o.there

\* The PATCH that opens the gate, or sets the replicas, names the parent's uid.
Patchable(o, seen) == SameObject(o, seen)

Open(t) ==
  /\ reqs[t].pc = "open" /\ Finish(t)
  /\ LET o == objects["parent"] IN
     IF Patchable(o, reqs[t].seen)
     THEN /\ Stored("parent", [o EXCEPT !.open = TRUE, !.rv = IF o.open THEN @ ELSE @ + 1])
          /\ wanting' = [wanting EXCEPT ![t] = FALSE]
     ELSE UNCHANGED <<objects, wanting>>
  /\ UNCHANGED <<kind, want, made, left, history>>

\* POST /api/volumes, with or without the devmachine label.
CreateVolume ==
  /\ kind = "devmachine" /\ left.events > 0 /\ left' = [left EXCEPT !.events = @ - 1] /\ ~Occupied("volume")
  /\ \E size \in {w.size : w \in Settings} \ {0}, ours \in BOOLEAN :
       Post("volume", [Object("volume", 0, NoPrint) EXCEPT !.size = size, !.ours = ours])
  /\ UNCHANGED <<kind, want, wanting, reqs, history>>

-----------------------------------------------------------------------------
(* delete_workload().                                                      *)

\* The parent is the copy that was read first; the rest is read when its
\* turn comes.
Turn(t, r, todo) ==
  IF todo = << >> THEN Finish(t)
  ELSE IF todo[1] = "parent"
  THEN Continue(t, [r EXCEPT !.pc = "remove", !.todo = todo, !.held = r.seen])
  ELSE Continue(t, [r EXCEPT !.pc = "hold", !.todo = todo, !.held = Nothing])

\* A dev machine's volume comes after the machine.
VolumeLast == IF kind = "devmachine" THEN <<"volume">> ELSE << >>

\* Of the workload: the parent is read.
DeleteBegins(t) ==
  /\ reqs[t].pc = "idle" /\ left.deletes > 0 /\ left' = [left EXCEPT !.deletes = @ - 1]
  /\ LET o == objects["parent"] IN
     \/ ~o.there /\ Turn(t, Idle, VolumeLast)
     \/ o.there /\ kind = "devmachine" /\ ~o.ours /\ Finish(t)
     \/ /\ o.there /\ (kind = "devmachine" => o.ours)
        /\ Turn(t, [Idle EXCEPT !.seen = Copy(o)], Sides \o <<"parent">> \o VolumeLast)
  /\ UNCHANGED <<kind, want, wanting, objects, made, history>>

\* Of the volume itself.
DeleteVolumeBegins(t) ==
  /\ reqs[t].pc = "idle" /\ left.deletes > 0 /\ left' = [left EXCEPT !.deletes = @ - 1]
  /\ kind = "devmachine" /\ Turn(t, [Idle EXCEPT !.erase = "only"], <<"volume">>)
  /\ UNCHANGED <<kind, want, wanting, objects, made, history>>

\* A side goes if the parent owns it, or if nobody does and it has this
\* workload's labels; a volume if the client said so and it is labelled.
OfParent(o, seen) == o.owner = seen.uid \/ (o.owner = 0 /\ o.ours)
Removable(r, e, o) ==
  IF At(r) = "volume" THEN r.erase = "only" \/ (e = "delete" /\ o.ours)
  ELSE OfParent(o, r.seen)

\* get() of a side or of the volume.
Hold(t) ==
  /\ reqs[t].pc = "hold"
  /\ LET r == reqs[t]
         o == objects[At(r)] IN
     \E e \in IF At(r) = "volume" THEN {"keep", "delete"} ELSE {"keep"} :
       IF o.there /\ Removable(r, e, o)
       THEN Continue(t, [r EXCEPT !.pc = "remove", !.held = Copy(o),
                           !.erase = IF @ = "only" THEN @ ELSE e])
       ELSE Turn(t, r, Tail(r.todo))
  /\ UNCHANGED <<kind, want, wanting, objects, made, left, history>>

\* Mutant: DELETE without preconditions.
DeleteByName(o, held) == TRUE

\* remove(): an object that is gone ends the request as if it had deleted
\* everything; one that has changed ends it with a conflict.
Precondition(o, held) == Unchanged(o, held)

Remove(t) ==
  /\ reqs[t].pc = "remove"
  /\ LET r == reqs[t]
         o == objects[At(r)] IN
     IF o.there /\ Precondition(o, r.held)
     THEN Delete(At(r)) /\ Turn(t, r, Tail(r.todo))
     ELSE Finish(t) /\ UNCHANGED <<objects, robbed>>
  /\ UNCHANGED <<kind, want, wanting, made, left, rekeyed>>

-----------------------------------------------------------------------------
(* rotate_ssh_key().                                                       *)

RotateBegins(t) ==
  /\ reqs[t].pc = "idle" /\ left.events > 0 /\ kind = "devmachine"
  /\ left' = [left EXCEPT !.events = @ - 1]
  /\ Continue(t, IF Occupied("parent") /\ objects["parent"].ours
                 THEN [Idle EXCEPT !.pc = "read"] ELSE Idle)
  /\ UNCHANGED <<kind, want, wanting, objects, made, history>>

ReadKeys(t) ==
  /\ reqs[t].pc = "read"
  /\ LET o == objects["configmap"] IN
     Continue(t, IF o.there /\ o.ours THEN [reqs[t] EXCEPT !.pc = "put", !.held = Copy(o)] ELSE Idle)
  /\ UNCHANGED <<kind, want, wanting, objects, made, left, history>>

PutKeys(t) ==
  /\ reqs[t].pc = "put" /\ Finish(t)
  /\ LET o == objects["configmap"] IN
     IF o.there /\ Unchanged(o, reqs[t].held)
     THEN /\ Stored("configmap", [o EXCEPT !.newkey = TRUE, !.rv = @ + 1])
          /\ rekeyed' = rekeyed \cup {o.owner}
     ELSE UNCHANGED <<objects, rekeyed>>
  /\ UNCHANGED <<kind, want, wanting, made, left, robbed>>

-----------------------------------------------------------------------------
(* The cluster, and failures.                                              *)

\* The garbage collector: a child whose owner is gone.
Collect(s) ==
  /\ s \in {"configmap", "service"} /\ Occupied(s) /\ objects[s].owner > 0
  /\ ~(Occupied("parent") /\ objects["parent"].uid = objects[s].owner)
  /\ Stored(s, Absent)
  /\ UNCHANGED <<kind, want, wanting, made, reqs, left, history>>

\* A pod has stopped; nothing uses the volume any more.
Finalize(s) ==
  /\ Occupied(s) /\ objects[s].ending /\ Stored(s, Absent)
  /\ UNCHANGED <<kind, want, wanting, made, reqs, left, history>>

\* The capacity controller evicts a running pod.
Evict ==
  /\ left.events > 0 /\ left' = [left EXCEPT !.events = @ - 1]
  /\ kind = "devmachine" /\ Occupied("parent") /\ objects["parent"].open /\ Delete("parent")
  /\ UNCHANGED <<kind, want, wanting, made, reqs, rekeyed>>

\* A call is refused or its answer lost, the portal restarts: the request ends.
Fails(t) ==
  /\ reqs[t].pc # "idle" /\ left.events > 0 /\ left' = [left EXCEPT !.events = @ - 1]
  /\ Finish(t)
  /\ UNCHANGED <<kind, want, wanting, objects, made, history>>

Create(t) == CreateBegins(t) \/ Get(t) \/ Make(t) \/ Open(t)
Erase(t)  == Hold(t) \/ Remove(t)
Rotate(t) == ReadKeys(t) \/ PutKeys(t)
Cluster   == \E s \in Slots : Collect(s) \/ Finalize(s)

Next ==
  \/ \E t \in Creators : Create(t)
  \/ \E t \in Deleters : DeleteBegins(t) \/ DeleteVolumeBegins(t) \/ Erase(t)
  \/ \E t \in Rotators : RotateBegins(t) \/ Rotate(t)
  \/ CreateVolume
  \/ Cluster
  \/ Evict
  \/ \E t \in Threads : Fails(t)

\* A client repeats its request until it is answered, its thread runs, and
\* the cluster finishes what it has begun.  Nobody has to delete or rotate.
Fairness == WF_vars(Cluster) /\ \A t \in Creators : WF_vars(Create(t))

Spec == Init /\ [][Next]_vars /\ Fairness
=============================================================================
