------------------------ MODULE ProvisionProperties ------------------------
(* What concurrent, repeated and interrupted requests must not do to the    *)
(* workload of one name, and what retrying must achieve.                    *)
EXTENDS Provisioning

Phases == {"idle", "get", "post", "reget", "open", "hold", "remove", "read", "put"}

\* Types; and every fingerprint is that of a request a client sends.
ProvisionTypeOK ==
  /\ kind \in Kinds /\ want \in [Creators -> Settings] /\ wanting \in [Creators -> BOOLEAN]
  /\ objects \in [Slots -> Objects \cup {Absent}] /\ made \in [Slots -> Nat]
  /\ reqs \in [Threads -> [pc : Phases, todo : Seq(Slots), seen : [uid : Nat, rv : Nat],
                           held : [uid : Nat, rv : Nat], erase : {"keep", "delete", "only"}]]
  /\ left \in [{"deletes", "events"} -> Nat]
  /\ robbed \subseteq Nat /\ rekeyed \subseteq Nat

Parent == objects["parent"]
InPlace(s) ==
  /\ objects[s].there
  /\ IF s = "volume" THEN objects[s].ours /\ objects[s].size = Parent.print.size
                     ELSE objects[s].owner = Parent.uid
Needed(w) == {Dependencies(w)[i] : i \in DOMAIN Dependencies(w)}

\* "It cannot run or incur GPU charges until every dependency is present": a
\* workload that was opened has all its dependencies, its own and not another
\* request's, unless a delete request took one away; whatever was retried,
\* interrupted, created twice at once or collected.
OpenComplete ==
  Parent.there /\ Parent.open /\ Parent.print # NoPrint /\ Parent.uid \notin robbed
    => \A s \in Needed(Parent.print) : InPlace(s)

\* A delete request takes the very object it read, never one that came under
\* the name in between (tenant_portal.py:950-956); and of a workload no more
\* than the parent it looked at first, what that parent owns, or nobody though
\* it has the labels, and, if it was asked to, a volume with the machine's
\* label.  Whose that volume is is not checked (984), so 951, "Never delete a
\* replacement object with the same name after a race", is kept of all but it.
Taken(s) == /\ Occupied(s) /\ ~objects[s].ending
            /\ ~(Occupied(s)' /\ objects'[s].uid = objects[s].uid /\ ~objects'[s].ending)
SparesOthers ==
  [][ \A t \in Deleters, s \in Slots :
        reqs[t].pc = "remove" /\ reqs'[t] # reqs[t] /\ Taken(s) =>
          /\ objects[s].uid = reqs[t].held.uid
          /\ reqs[t].erase # "only" =>
               CASE s = "parent" -> objects[s].uid = reqs[t].seen.uid
                 [] s = "volume" -> reqs[t].erase = "delete" /\ objects[s].ours
                 [] OTHER        -> OfParent(objects[s], reqs[t].seen) ]_vars

\* "a compromised key is revoked without deleting the box": no retry of the
\* request that created the machine brings the replaced key back, unless a
\* delete request took the key file away.
RevokedKeyStaysOut ==
  LET cm == objects["configmap"] IN
  cm.there /\ Parent.there /\ cm.owner = Parent.uid /\ cm.owner \in rekeyed /\ cm.owner \notin robbed => cm.newkey

\* "Interrupted parents remain visibly suspended and can be resumed with the
\* same request": while its client retries, a suspended workload is opened,
\* or deleted, or a name it needs is another's.
Suspended == Parent.there /\ ~Parent.open /\ \E t \in Creators : wanting[t] /\ Parent.print = want[t]
NameTaken ==
  Parent.there /\ \E s \in Needed(Parent.print) :
    objects[s].there /\ IF s = "volume" THEN ~InPlace(s) ELSE objects[s].owner = 0
Resumed == Suspended ~> (~Parent.there \/ Parent.open \/ NameTaken)
=============================================================================
