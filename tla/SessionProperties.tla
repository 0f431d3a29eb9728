-------------------------- MODULE SessionProperties --------------------------
(* What a session token must never do, whatever happens between its steps.  *)
EXTENDS Sessions

Standing(toks) ==
  [pc : Phases, tok : {0} \cup toks, name : {"-"} \cup Accounts, ver : Int,
   role : {"admin", "user", "none"}, was : BOOLEAN, late : BOOLEAN]

SessionTypeOK ==
  /\ clock \in Nat /\ fresh \in Nat
  /\ users \in [Accounts -> [role : {"admin", "user", "none"}, ver : Int, secret : Nat]]
  /\ revoked \subseteq Tokens /\ ended \subseteq Tokens
  /\ byUser \in [Accounts -> Seq(Tokens)]
  /\ issued \in Seq([u : Accounts, v : Int, exp : Nat, proved : Int])
  /\ reqs \in [Requests -> Standing(Tokens)]

Admitted(t) == reqs[t].pc \in {"valid", "authed"} \cup Handling \cup Revoking

\* gateway.py:456 "Never make a logged-out token valid to save memory": a
\* session that was ended before a request began (logged out, its password
\* changed, its account deleted or the Secret rotated) does not admit the
\* request, through overflow, pruning, failed commits and restarts.  A request
\* whose token ran out while it was being checked is set apart.
EndedStaysEnded == \A t \in Requests : Admitted(t) /\ reqs[t].was => reqs[t].late

\* gateway.py:527 "must never authenticate the replacement identity": a
\* request acts for the identity whose password its session was opened with.
ProvedIdentity ==
  \A t \in Requests :
    reqs[t].pc = "authed" => issued[reqs[t].tok].proved = reqs[t].ver
=============================================================================
