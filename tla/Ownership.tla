------------------------------ MODULE Ownership ------------------------------
(***************************************************************************)
(* What capacity_controller.py promises about a machine, with no mechanism: *)
(* at most one class of user at a time.  Work of a class may start only     *)
(* while the machine is open to that class; the machine changes hands only  *)
(* by being closed, emptied of everybody else, and opened again.            *)
(***************************************************************************)
CONSTANT Classes  \* the internal pool, each customer, the marketplace

VARIABLES
  open,   \* the classes that may start work on the machine now
  users   \* the classes with work running on it

vars == <<open, users>>

Init == users = {} /\ (open = {} \/ \E c \in Classes : open = {c})

Close == open' = {} /\ users' = users

Grant(c) == /\ open = {} /\ users \subseteq {c}
            /\ open' = {c} /\ users' = users

Begin(c) == /\ c \in open
            /\ users' = users \cup {c} /\ open' = open

Leave(c) == users' = users \ {c} /\ open' = open

Next == Close \/ \E c \in Classes : Grant(c) \/ Begin(c) \/ Leave(c)

Spec == Init /\ [][Next]_vars

\* One class at most uses the machine or may start using it.
SoleUse == \E c \in Classes : open \cup users \subseteq {c}
=============================================================================
