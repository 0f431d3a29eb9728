------------------------------ MODULE Sessions ------------------------------
(***************************************************************************)
(* services/gateway: the accounts, the signed session tokens and their     *)
(* revocation, in the SQLite file one process owns.  A request is a thread *)
(* of the server; it touches the store only under _STATE_LOCK, and hashes  *)
(* passwords, parses and answers outside it.                               *)
(*                                                                         *)
(* A step is one block under the lock, or one commit where revoke() makes  *)
(* several under one lock: the process may die, or the file refuse a       *)
(* write, between any two.  A token is a jti, its signed payload kept in   *)
(* `issued'; it is never wrong or forged here.  What a request proves with *)
(* a password is what its snapshot of the account held.                    *)
(***************************************************************************)
EXTENDS Integers, Sequences, FiniteSets

CONSTANTS
  Seeds,           \* accounts every start seeds, administrators here
  Names,           \* accounts an administrator may create
  Requests,        \* threads of the server
  TTL,             \* SESSION_TTL
  RevokedPerUser,  \* REVOKED_PER_USER
  MaxTime, MaxTokens, MaxVersions, MaxSecrets    \* bounds

ASSUME SessionConstants ==
  /\ Seeds # {} /\ Seeds \cap Names = {}
  /\ TTL \in Nat \ {0} /\ RevokedPerUser \in Nat \ {0}
  /\ MaxTime \in Nat /\ MaxTokens \in Nat /\ MaxVersions \in Nat /\ MaxSecrets \in Nat \ {0}

Accounts == Seeds \cup Names

VARIABLES
  clock,    \* time.time()
  users,    \* USERS: name -> role, identity version, and the seeded password
  revoked,  \* REVOKED: the tombstones, by jti
  byUser,   \* REVOKED_BY_USER: name -> its tombstones, oldest first
  issued,   \* jti -> payload; `proved' is the version the password was checked against
  fresh,    \* random identity versions drawn so far
  reqs,     \* request -> where it stands
  ended     \* the sessions that were ended: logged out, or their identity replaced

store == <<users, revoked, byUser>>
vars  == <<clock, store, issued, fresh, reqs, ended>>

Nobody == [role |-> "none", ver |-> 0, secret |-> 0]

\* The phases of a request: a login past its password check; a token past its
\* expiry check, past read_token, past session_user; a handler before its
\* second lock; revoke() before each of its commits.
Handling == {"changing", "creating", "deleting"}
Revoking == {"rotate", "discard", "tomb", "index"}
Phases   == {"idle", "verified", "signed", "valid", "authed"} \cup Handling \cup Revoking

Idle == [pc |-> "idle", tok |-> 0, name |-> "-", ver |-> 0, role |-> "none",
         was |-> FALSE, late |-> FALSE]

\* Mutant: a restart undoes a rotation.
SeedRecomputed(n, secret) == -secret

\* The version of a seeded account follows from its password; a rotated one is
\* kept while the password is the same.
SeedVersion(n, secret) == IF users[n].secret = secret THEN users[n].ver ELSE -secret

Tokens   == DOMAIN issued
TokensOf(n) == {j \in Tokens : issued[j].u = n}
Expired(j)  == issued[j].exp <= clock

Free == \A t \in Requests : reqs[t].pc \notin Revoking   \* _STATE_LOCK

Init ==
  /\ clock = 0
  /\ users = [n \in Accounts |-> IF n \in Seeds THEN [role |-> "admin", ver |-> -1, secret |-> 1] ELSE Nobody]
  /\ revoked = {} /\ byUser = [n \in Accounts |-> <<>>]
  /\ issued = <<>> /\ fresh = 0 /\ ended = {}
  /\ reqs = [t \in Requests |-> Idle]

Goto(t, r)  == reqs' = [reqs EXCEPT ![t] = r]
Answer(t)   == Goto(t, Idle)
NewVersion  == fresh < MaxVersions /\ fresh' = fresh + 1

-----------------------------------------------------------------------------
(* Login: check_login() takes a snapshot, the hash is computed outside the  *)
(* lock, authenticate() mints.                                              *)

CheckLogin(t, n) ==
  /\ Free /\ reqs[t].pc = "idle" /\ users[n] # Nobody
  /\ Goto(t, [Idle EXCEPT !.pc = "verified", !.name = n, !.ver = users[n].ver])
  /\ UNCHANGED <<clock, store, issued, fresh, ended>>

\* Mutant: any account of the name will do.
SameName(n, ver) == users[n] # Nobody

SameIdentity(n, ver) == users[n] # Nobody /\ users[n].ver = ver

Minted(n, ver) ==
  issued' = Append(issued, [u |-> n, v |-> users[n].ver, exp |-> clock + TTL, proved |-> ver])

Authenticate(t) ==
  /\ Free /\ reqs[t].pc = "verified" /\ Answer(t)
  /\ IF SameIdentity(reqs[t].name, reqs[t].ver)
       THEN Len(issued) < MaxTokens /\ Minted(reqs[t].name, reqs[t].ver)
       ELSE UNCHANGED issued
  /\ UNCHANGED <<clock, store, fresh, ended>>

-----------------------------------------------------------------------------
(* A request with a session cookie.                                         *)

\* The token's payload; `was' is whether its session had ended.
Bearing(j) == [pc |-> "signed", tok |-> j, name |-> issued[j].u, ver |-> 0, role |-> "none",
               was |-> j \in ended, late |-> FALSE]

\* read_token() looks at the expiry before it takes the lock.
Present(t, j) ==
  /\ reqs[t].pc = "idle" /\ ~Expired(j)
  /\ Goto(t, Bearing(j))
  /\ UNCHANGED <<clock, store, issued, fresh, ended>>

Accepted(j) == j \notin revoked /\ SameIdentity(issued[j].u, issued[j].v)

ReadToken(t) ==
  /\ Free /\ reqs[t].pc = "signed"
  /\ IF Accepted(reqs[t].tok)
       THEN Goto(t, [reqs[t] EXCEPT !.pc = "valid", !.late = Expired(reqs[t].tok)])
       ELSE Answer(t)
  /\ UNCHANGED <<clock, store, issued, fresh, ended>>

\* The role comes from the record, the version from the token.
SessionUser(t) ==
  /\ Free /\ reqs[t].pc = "valid"
  /\ LET n == reqs[t].name  v == issued[reqs[t].tok].v IN
     IF SameIdentity(n, v)
       THEN Goto(t, [reqs[t] EXCEPT !.pc = "authed", !.ver = v, !.role = users[n].role])
       ELSE Answer(t)
  /\ UNCHANGED <<clock, store, issued, fresh, ended>>

\* /auth/me, the user list, a proxied call, or a refusal: nothing is stored.
Serve(t) ==
  /\ reqs[t].pc = "authed" /\ Answer(t)
  /\ UNCHANGED <<clock, store, issued, fresh, ended>>

-----------------------------------------------------------------------------
(* Logout: revoke().                                                        *)

\* _prune_revoked(): the tombstones of expired tokens go, then their entries.
Pruned == {j \in revoked : ~Expired(j)}
Kept(ids, live) ==
  LET left   == {i \in DOMAIN ids : ids[i] \in live}
      nth(k) == CHOOSE i \in left : Cardinality({h \in left : h <= i}) = k
  IN  [k \in 1..Cardinality(left) |-> ids[nth(k)]]

\* The user's tombstones with this one, and those that no longer fit.
Ids(t) ==
  LET ids == byUser[reqs[t].name] IN
  IF \E i \in DOMAIN ids : ids[i] = reqs[t].tok THEN ids ELSE Append(ids, reqs[t].tok)
Overflow(ids) == Len(ids) > RevokedPerUser
Surplus(ids)  == {ids[i] : i \in 1..(Len(ids) - RevokedPerUser)}
Fitting(ids)  == IF Overflow(ids) THEN SubSeq(ids, Len(ids) - RevokedPerUser + 1, Len(ids)) ELSE ids

Revoke(t) ==
  /\ Free /\ reqs[t].pc = "authed"
  /\ revoked' = Pruned /\ byUser' = [n \in Accounts |-> Kept(byUser[n], Pruned)]
  /\ Goto(t, [reqs[t] EXCEPT !.pc = "rotate"])
  /\ UNCHANGED <<clock, users, issued, fresh, ended>>

\* Every session of the identity goes before an old tombstone does.
Rotate(t) ==
  /\ reqs[t].pc = "rotate"
  /\ LET n == reqs[t].name IN
     IF Overflow(Ids(t)) /\ users[n] # Nobody
       THEN /\ NewVersion /\ users' = [users EXCEPT ![n].ver = fresh']
            /\ ended' = ended \cup TokensOf(n)
       ELSE UNCHANGED <<users, fresh, ended>>
  /\ Goto(t, [reqs[t] EXCEPT !.pc = "discard"])
  /\ UNCHANGED <<clock, revoked, byUser, issued>>

Discard(t) ==
  /\ reqs[t].pc = "discard" /\ revoked' = revoked \ Surplus(Ids(t))
  /\ Goto(t, [reqs[t] EXCEPT !.pc = "tomb"])
  /\ UNCHANGED <<clock, users, byUser, issued, fresh, ended>>

Tombstone(t) ==
  /\ reqs[t].pc = "tomb" /\ revoked' = revoked \cup {reqs[t].tok}
  /\ Goto(t, [reqs[t] EXCEPT !.pc = "index"])
  /\ UNCHANGED <<clock, users, byUser, issued, fresh, ended>>

IndexAndAnswer(t) ==
  /\ reqs[t].pc = "index" /\ byUser' = [byUser EXCEPT ![reqs[t].name] = Fitting(Ids(t))]
  /\ ended' = ended \cup {reqs[t].tok} /\ Answer(t)
  /\ UNCHANGED <<clock, users, revoked, issued, fresh>>

-----------------------------------------------------------------------------
(* Password change, and the accounts an administrator manages.              *)

\* check_login(): the current password matched the account as it was here.
CheckPassword(t) ==
  /\ Free /\ reqs[t].pc = "authed" /\ reqs[t].name \notin Seeds
  /\ SameIdentity(reqs[t].name, reqs[t].ver)
  /\ Goto(t, [reqs[t] EXCEPT !.pc = "changing"])
  /\ UNCHANGED <<clock, store, issued, fresh, ended>>

ChangePassword(t) ==
  /\ Free /\ reqs[t].pc = "changing" /\ Answer(t)
  /\ LET n == reqs[t].name IN
     IF SameIdentity(n, reqs[t].ver)
       THEN /\ NewVersion /\ users' = [users EXCEPT ![n].ver = fresh']
            /\ ended' = ended \cup TokensOf(n)
       ELSE UNCHANGED <<users, fresh, ended>>
  /\ UNCHANGED <<clock, revoked, byUser, issued>>

\* The handler looks whether the name is taken, then add_user() hashes.
CheckCreate(t, n) ==
  /\ Free /\ reqs[t].pc = "authed" /\ reqs[t].role = "admin"
  /\ n \in Names /\ users[n] = Nobody
  /\ \E role \in {"admin", "user"} :
       Goto(t, [reqs[t] EXCEPT !.pc = "creating", !.name = n, !.role = role])
  /\ UNCHANGED <<clock, store, issued, fresh, ended>>

\* add_user(create_only=True)
AddUser(t) ==
  /\ Free /\ reqs[t].pc = "creating" /\ Answer(t)
  /\ LET n == reqs[t].name IN
     IF users[n] = Nobody
       THEN /\ NewVersion
            /\ users' = [users EXCEPT ![n] = [role |-> reqs[t].role, ver |-> fresh', secret |-> 0]]
       ELSE UNCHANGED <<users, fresh>>
  /\ UNCHANGED <<clock, revoked, byUser, issued, ended>>

Admins == {n \in Accounts : users[n].role = "admin"}

\* Not oneself, not a provisioned account, not the last administrator: all of
\* it read before the lock.
Deletable(me, n) ==
  /\ n # me /\ n \notin Seeds /\ users[n] # Nobody
  /\ ~(users[n].role = "admin" /\ Cardinality(Admins) = 1)

CheckDelete(t, n) ==
  /\ Free /\ reqs[t].pc = "authed" /\ reqs[t].role = "admin" /\ Deletable(reqs[t].name, n)
  /\ Goto(t, [reqs[t] EXCEPT !.pc = "deleting", !.name = n])
  /\ UNCHANGED <<clock, store, issued, fresh, ended>>

\* USERS.pop(name, None)
DeleteUser(t) ==
  /\ Free /\ reqs[t].pc = "deleting" /\ Answer(t)
  /\ users' = [users EXCEPT ![reqs[t].name] = Nobody]
  /\ ended' = ended \cup TokensOf(reqs[t].name)
  /\ UNCHANGED <<clock, revoked, byUser, issued, fresh>>

-----------------------------------------------------------------------------
(* Failures.                                                                *)

\* A statement raises sqlite3.Error: 503, what was committed before it stays.
StoreFails(t) ==
  /\ reqs[t].pc # "idle" /\ (reqs[t].pc \in Revoking \/ Free) /\ Answer(t)
  /\ UNCHANGED <<clock, store, issued, fresh, ended>>

\* The process dies at any point and starts again: init_auth_store() prunes,
\* seed_users() binds the provisioned accounts to the Secret's passwords,
\* which are the same as before or new ones.
Restart ==
  /\ reqs' = [t \in Requests |-> Idle]
  /\ revoked' = Pruned /\ byUser' = [n \in Accounts |-> Kept(byUser[n], Pruned)]
  /\ \E secret \in [Seeds -> 1..MaxSecrets] :
       /\ \A n \in Seeds : secret[n] >= users[n].secret
       /\ users' = [n \in Accounts |->
            IF n \in Seeds
              THEN [role |-> "admin", ver |-> SeedVersion(n, secret[n]), secret |-> secret[n]]
              ELSE users[n]]
       /\ ended' = ended \cup UNION {TokensOf(n) : n \in {s \in Seeds : secret[s] # users[s].secret}}
  /\ UNCHANGED <<clock, issued, fresh>>

TimePasses ==
  /\ clock < MaxTime /\ clock' = clock + 1
  /\ UNCHANGED <<store, issued, fresh, reqs, ended>>

Handler(t) ==
  \/ Authenticate(t) \/ ReadToken(t) \/ SessionUser(t) \/ Serve(t)
  \/ Revoke(t) \/ Rotate(t) \/ Discard(t) \/ Tombstone(t) \/ IndexAndAnswer(t)
  \/ CheckPassword(t) \/ ChangePassword(t) \/ AddUser(t) \/ DeleteUser(t) \/ StoreFails(t)
  \/ \E n \in Accounts : CheckLogin(t, n) \/ CheckCreate(t, n) \/ CheckDelete(t, n)
  \/ \E j \in Tokens : Present(t, j)

Next == Restart \/ TimePasses \/ \E t \in Requests : Handler(t)

Spec == Init /\ [][Next]_vars
=============================================================================
