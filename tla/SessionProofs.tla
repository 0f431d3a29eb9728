---------------------------- MODULE SessionProofs ----------------------------
(***************************************************************************)
(* For any accounts, threads, ceilings and bounds: an ended session stays  *)
(* ended, and a request acts for the identity whose password opened its    *)
(* session.                                                                *)
(***************************************************************************)
EXTENDS SessionProperties, FiniteSetTheorems, SequenceTheorems, WellFoundedInduction, TLAPS

-----------------------------------------------------------------------------
(* Kept(ids, live) is a sequence of the entries of ids that are live.       *)

\* A set of naturals has a least element: the intervals 1..n are finite sets,
\* and inclusion is well founded on those.
LEMMA Least ==
  ASSUME NEW S \in SUBSET Nat, S # {}
  PROVE  \E m \in S : \A n \in S : m <= n
<1> DEFINE T == {1..n : n \in S}
<1>1. T \subseteq FiniteSubsetsOf(Nat)
  <2> SUFFICES ASSUME NEW n \in S PROVE 1..n \in FiniteSubsetsOf(Nat)
    OBVIOUS
  <2>1. IsFiniteSet(1..n)
    BY FS_Interval
  <2> QED
    BY <2>1 DEF FiniteSubsetsOf
<1>2. T # {}
  OBVIOUS
<1>3. PICK x \in T : \A y \in T : <<y, x>> \notin StrictSubsetOrdering(Nat)
  <2> HIDE DEF T
  <2> QED
    BY <1>1, <1>2, FS_StrictSubsetOrderingWellFounded, WFMin
<1>4. PICK m \in S : x = 1..m
  OBVIOUS
<1>5. ASSUME NEW n \in S, n < m PROVE FALSE
  <2>1. 1..n \in SUBSET Nat /\ 1..m \in SUBSET Nat /\ 1..n \subseteq 1..m
    BY <1>5
  <2>2. m \in 1..m /\ m \notin 1..n
    BY <1>5
  <2>3. <<1..n, 1..m>> \in StrictSubsetOrdering(Nat)
    BY <2>1, <2>2 DEF StrictSubsetOrdering
  <2> QED
    BY <1>3, <1>4, <2>3
<1> QED
  BY <1>5

\* For every k up to the size of a set of positions there is a k-th of them.
LEMMA Nth ==
  ASSUME NEW n \in Nat, NEW left \in SUBSET (1..n), NEW k \in 1..Cardinality(left)
  PROVE  \E i \in left : Cardinality({h \in left : h <= i}) = k
<1> DEFINE Below(i) == {h \in left : h <= i}
           S == {i \in 0..n : Cardinality(Below(i)) >= k}
<1>1. \A h \in left : h \in Int /\ 1 <= h /\ h <= n
  OBVIOUS
<1>2. IsFiniteSet(left) /\ Cardinality(left) \in Nat /\ k \in Nat /\ 1 <= k /\ k <= Cardinality(left)
  <2>1. IsFiniteSet(1..n)
    BY FS_Interval
  <2>2. IsFiniteSet(left)
    BY <2>1, FS_Subset
  <2>3. Cardinality(left) \in Nat
    BY <2>2, FS_CardinalityType
  <2> QED
    BY <2>2, <2>3
<1>3. \A i : IsFiniteSet(Below(i)) /\ Cardinality(Below(i)) \in Nat
  <2> SUFFICES ASSUME NEW i PROVE IsFiniteSet(Below(i)) /\ Cardinality(Below(i)) \in Nat
    OBVIOUS
  <2>1. Below(i) \in SUBSET left
    OBVIOUS
  <2> HIDE DEF Below
  <2> QED
    BY <1>2, <2>1, FS_Subset, FS_CardinalityType
<1>4. Below(n) = left
  BY <1>1
<1>5. Below(0) = {}
  <2>1. \A h \in left : ~(h <= 0)
    BY <1>1
  <2> QED
    BY <2>1
<1>6. Cardinality({}) = 0
  BY FS_EmptySet
<1>7. ASSUME NEW m \in Int, m \in left PROVE Below(m) = Below(m - 1) \cup {m} /\ m \notin Below(m - 1)
  <2>1. \A h \in left : h <= m <=> (h <= m - 1 \/ h = m)
    BY <1>1
  <2>2. m <= m /\ ~(m <= m - 1)
    OBVIOUS
  <2> QED
    BY <1>7, <2>1, <2>2
<1>8. ASSUME NEW m \in Int, m \notin left PROVE Below(m) = Below(m - 1)
  <2>1. \A h \in left : h <= m <=> h <= m - 1
    BY <1>1, <1>8
  <2> QED
    BY <2>1
<1> HIDE DEF Below
<1>9. PICK m \in S : \A i \in S : m <= i
  <2>1. n \in S
    BY <1>2, <1>4
  <2>2. S \in SUBSET Nat /\ S # {}
    BY <2>1
  <2> HIDE DEF S
  <2> QED
    BY <2>2, Least
<1>10. m \in 0..n /\ m # 0
  BY <1>2, <1>5, <1>6
<1>11. m - 1 \in 0..n /\ m - 1 \notin S
  BY <1>9, <1>10
<1>12. Cardinality(Below(m - 1)) < k /\ Cardinality(Below(m)) >= k
  BY <1>2, <1>3, <1>11
<1>13. m \in left
  BY <1>2, <1>3, <1>8, <1>10, <1>12
<1>14. Cardinality(Below(m)) = Cardinality(Below(m - 1)) + 1
  BY <1>3, <1>7, <1>10, <1>13, FS_AddElement
<1>15. Cardinality(Below(m)) = k
  BY <1>2, <1>3, <1>12, <1>14
<1> QED
  BY <1>13, <1>15 DEF Below

LEMMA KeptEntries ==
  ASSUME NEW T, NEW ids \in Seq(T), NEW live
  PROVE  /\ Kept(ids, live) \in Seq(T)
         /\ \A k \in DOMAIN Kept(ids, live) : \E i \in DOMAIN ids : Kept(ids, live)[k] = ids[i]
<1> DEFINE left == {i \in DOMAIN ids : ids[i] \in live}
           nth(k) == CHOOSE i \in left : Cardinality({h \in left : h <= i}) = k
<1>1. Len(ids) \in Nat /\ DOMAIN ids = 1..Len(ids) /\ left \in SUBSET (1..Len(ids))
  BY LenProperties
<1>2. IsFiniteSet(left) /\ Cardinality(left) \in Nat
  <2>1. IsFiniteSet(1..Len(ids))
    BY <1>1, FS_Interval
  <2> HIDE DEF left
  <2> QED
    BY <1>1, <2>1, FS_Subset, FS_CardinalityType
<1>3. \A k \in 1..Cardinality(left) : nth(k) \in left
  <2> HIDE DEF left
  <2> QED
    BY <1>1, Nth
<1>4. Kept(ids, live) = [k \in 1..Cardinality(left) |-> ids[nth(k)]]
  BY DEF Kept
<1>5. \A k \in 1..Cardinality(left) : nth(k) \in DOMAIN ids /\ ids[nth(k)] \in T
  BY <1>1, <1>3, ElementOfSeq
<1> HIDE DEF left, nth
<1> QED
  BY <1>2, <1>4, <1>5

-----------------------------------------------------------------------------
(* The types.                                                               *)

\* A handler's steps that store nothing, and those that do.
Asks(t) ==
  \/ ReadToken(t) \/ SessionUser(t) \/ Serve(t) \/ CheckPassword(t) \/ StoreFails(t)
  \/ \E n \in Accounts : CheckLogin(t, n) \/ CheckCreate(t, n) \/ CheckDelete(t, n)
  \/ \E j \in Tokens : Present(t, j)

Stores(t) ==
  \/ Authenticate(t) \/ Revoke(t) \/ Rotate(t) \/ Discard(t) \/ Tombstone(t)
  \/ IndexAndAnswer(t) \/ ChangePassword(t) \/ AddUser(t) \/ DeleteUser(t)

LEMMA HandlerSplit == \A t \in Requests : Handler(t) => Asks(t) \/ Stores(t)
BY DEF Handler, Asks, Stores

\* Nothing but a login adds a token; one that is there never changes.
LEMMA IssuedGrows ==
  ASSUME SessionTypeOK, [Next]_vars
  PROVE  Tokens \subseteq Tokens' /\ \A j \in Tokens : issued'[j] = issued[j]
<1>1. CASE issued' = issued
  BY <1>1 DEF Tokens
<1>2. ASSUME NEW t \in Requests, Authenticate(t)
      PROVE  Tokens \subseteq Tokens' /\ \A j \in Tokens : issued'[j] = issued[j]
  <2>1. CASE SameIdentity(reqs[t].name, reqs[t].ver)
    <3>1. PICK e : issued' = Append(issued, e)
      BY <1>2, <2>1 DEF Authenticate, Minted
    <3>2. issued \in Seq({issued[j] : j \in Tokens} \cup {e})
      BY DEF SessionTypeOK, Tokens
    <3>3. /\ Len(issued') = Len(issued) + 1 /\ Len(issued) \in Nat
          /\ DOMAIN issued' = 1..Len(issued') /\ DOMAIN issued = 1..Len(issued)
          /\ \A j \in 1..Len(issued) : issued'[j] = issued[j]
      BY <3>1, <3>2, AppendProperties, LenProperties
    <3> QED
      BY <3>3 DEF Tokens
  <2> QED
    BY <1>1, <1>2, <2>1 DEF Authenticate
<1>3. ASSUME NEW t \in Requests, Handler(t), ~Authenticate(t) PROVE issued' = issued
  BY <1>3 DEF Handler, ReadToken, SessionUser, Serve, CheckPassword, StoreFails, CheckLogin,
     CheckCreate, CheckDelete, Present, Revoke, Rotate, Discard, Tombstone, IndexAndAnswer,
     ChangePassword, AddUser, DeleteUser
<1> QED
  BY <1>1, <1>2, <1>3 DEF Next, vars, Restart, TimePasses

\* Only one request moves, and the time and the ended sessions only grow.
LEMMA Frame ==
  ASSUME SessionTypeOK, NEW t \in Requests, Handler(t)
  PROVE  /\ \A s \in Requests \ {t} : reqs'[s] = reqs[s]
         /\ clock' = clock /\ ended \subseteq ended'
<1>1. CASE Asks(t)
  BY <1>1 DEF SessionTypeOK, Asks, ReadToken, SessionUser, Serve, CheckPassword, StoreFails,
     CheckLogin, CheckCreate, CheckDelete, Present, Goto, Answer
<1>2. CASE Stores(t)
  BY <1>2 DEF SessionTypeOK, Stores, Authenticate, Revoke, Rotate, Discard, Tombstone,
     IndexAndAnswer, ChangePassword, AddUser, DeleteUser, Goto, Answer
<1> QED
  BY <1>1, <1>2, HandlerSplit

LEMMA AskFrame ==
  ASSUME NEW t \in Requests, Asks(t)
  PROVE  UNCHANGED <<clock, users, revoked, byUser, issued, fresh, ended>>
BY DEF Asks, ReadToken, SessionUser, Serve, CheckPassword, StoreFails,
   CheckLogin, CheckCreate, CheckDelete, Present, store

\* What a step may write into a request.
LEMMA IdleStands == ASSUME NEW toks PROVE Idle \in Standing(toks)
BY DEF Standing, Idle, Phases

LEMMA StandingStarts ==
  ASSUME NEW toks, NEW n \in Accounts, NEW v \in Int
  PROVE  [Idle EXCEPT !.pc = "verified", !.name = n, !.ver = v] \in Standing(toks)
BY DEF Standing, Idle, Phases

-----------------------------------------------------------------------------
(* The inductive invariant.                                                 *)

Carrying == {"signed", "valid", "authed", "changing"} \cup Revoking

\* What a request remembers.
RequestOK(t) ==
  /\ reqs[t].pc = "verified" => reqs[t].name \in Accounts
  /\ reqs[t].pc \in Carrying => reqs[t].tok \in Tokens /\ reqs[t].name = issued[reqs[t].tok].u
  /\ reqs[t].pc = "authed" => reqs[t].ver = issued[reqs[t].tok].v
  /\ reqs[t].pc \in {"creating", "deleting"} => reqs[t].name \in Names
  /\ reqs[t].pc = "signed" /\ reqs[t].was => reqs[t].tok \in ended
  /\ Admitted(t) /\ reqs[t].was => reqs[t].late

\* _STATE_LOCK.
LockOK == \A s, t \in Requests : reqs[s].pc \in Revoking /\ reqs[t].pc \in Revoking => s = t

\* An identity's next version is one no token carries: random ones are new,
\* and a seeded one is derived from a password no token was opened with.
VersionsOK ==
  /\ \A n \in Accounts : users[n].ver <= fresh /\ -users[n].secret <= users[n].ver
  /\ \A n \in Names : users[n].secret = 0
  /\ \A n \in Seeds : users[n].role = "admin"
  /\ \A j \in Tokens : /\ issued[j].proved = issued[j].v
                       /\ issued[j].v <= fresh /\ -users[issued[j].u].secret <= issued[j].v

OwnersOK == \A n \in Accounts : \A i \in DOMAIN byUser[n] : issued[byUser[n][i]].u = n

\* The token's identity was deleted or replaced.
Dead(j) == ~SameIdentity(issued[j].u, issued[j].v)

\* A tombstone is discarded once every token of its user is dead, and the
\* token of a logout is revoked before its tombstone is indexed.
DiscardOK ==
  \A t \in Requests : reqs[t].pc = "discard" /\ Overflow(Ids(t)) =>
    \A j \in TokensOf(reqs[t].name) : Dead(j)
IndexOK == \A t \in Requests : reqs[t].pc = "index" => reqs[t].tok \in revoked

EndedOK == \A j \in ended : Expired(j) \/ j \in revoked \/ Dead(j)

SessionInv ==
  /\ SessionTypeOK /\ (\A t \in Requests : RequestOK(t)) /\ LockOK /\ VersionsOK
  /\ OwnersOK /\ DiscardOK /\ IndexOK /\ EndedOK

LEMMA TypesInit == Init => SessionTypeOK
<1> SUFFICES ASSUME Init PROVE SessionTypeOK
  OBVIOUS
<1> USE DEF Init, SessionTypeOK, Tokens, Accounts
<1>1. Idle \in Standing(Tokens)
  BY DEF Idle, Phases, Standing
<1>2. users \in [Accounts -> [role : {"admin", "user", "none"}, ver : Int, secret : Nat]]
  BY DEF Nobody
<1> QED
  BY <1>1, <1>2

LEMMA SessionInit == Init => SessionInv
<1> SUFFICES ASSUME Init PROVE SessionInv
  OBVIOUS
<1>1. SessionTypeOK
  BY TypesInit
<1>2. Tokens = {}
  BY DEF Init, Tokens
<1>3. VersionsOK
  BY <1>2, SessionConstants DEF Init, VersionsOK, Nobody, Accounts
<1>4. \A t \in Requests : reqs[t] = Idle /\ reqs[t].pc = "idle" /\ ~reqs[t].was
  BY DEF Init, Idle
<1> QED
  BY <1>1, <1>2, <1>3, <1>4 DEF Init, SessionInv, RequestOK, LockOK, OwnersOK, DiscardOK, IndexOK,
     EndedOK, Carrying, Revoking, Handling, Admitted

-----------------------------------------------------------------------------
(* A step that stores nothing.                                              *)

LEMMA TokenFacts ==
  ASSUME SessionTypeOK, NEW j \in Tokens
  PROVE  issued[j].u \in Accounts /\ issued[j].v \in Int /\ issued[j].exp \in Nat
<1> DEFINE Payload == [u : Accounts, v : Int, exp : Nat, proved : Int]
<1>1. issued[j] \in Payload
  <2>1. issued \in Seq(Payload) /\ j \in DOMAIN issued
    BY DEF SessionTypeOK, Tokens
  <2> HIDE DEF Payload
  <2> QED
    BY <2>1, LenProperties, ElementOfSeq
<1> QED
  BY <1>1

LEMMA AskTypes ==
  ASSUME SessionInv, NEW t \in Requests, Asks(t)
  PROVE  SessionTypeOK'
<1>0. SessionTypeOK /\ RequestOK(t)
  BY DEF SessionInv
<1>1. UNCHANGED <<clock, users, revoked, byUser, issued, fresh, ended>>
  BY AskFrame
<1>2. reqs[t] \in Standing(Tokens) /\ Idle \in Standing(Tokens)
  BY <1>0, IdleStands DEF SessionTypeOK
<1>3. ASSUME NEW r \in Standing(Tokens), Goto(t, r) PROVE SessionTypeOK'
  BY <1>0, <1>1, <1>3 DEF SessionTypeOK, Goto, Tokens
<1>4. {"valid", "authed", "changing", "creating", "deleting", "verified"} \subseteq Phases
  BY DEF Phases, Handling
<1>5. CASE Serve(t) \/ StoreFails(t) \/ Answer(t)
  BY <1>2, <1>3, <1>5 DEF Serve, StoreFails, Answer
<1>6. CASE ReadToken(t)
  <2>1. Expired(reqs[t].tok) \in BOOLEAN
    BY DEF Expired
  <2>2. [reqs[t] EXCEPT !.pc = "valid", !.late = Expired(reqs[t].tok)] \in Standing(Tokens)
    BY <1>2, <1>4, <2>1 DEF Standing
  <2> QED
    BY <1>3, <1>5, <1>6, <2>2 DEF ReadToken
<1>7. CASE SessionUser(t)
  <2> DEFINE n == reqs[t].name  v == issued[reqs[t].tok].v
  <2>1. n \in Accounts /\ v \in Int
    BY <1>0, <1>7, TokenFacts DEF SessionUser, RequestOK, Carrying
  <2>2. users[n].role \in {"admin", "user", "none"}
    BY <1>0, <2>1 DEF SessionTypeOK
  <2>3. [reqs[t] EXCEPT !.pc = "authed", !.ver = v, !.role = users[n].role] \in Standing(Tokens)
    BY <1>2, <1>4, <2>1, <2>2 DEF Standing
  <2> QED
    BY <1>3, <1>5, <1>7, <2>3 DEF SessionUser
<1>8. CASE CheckPassword(t)
  <2>1. [reqs[t] EXCEPT !.pc = "changing"] \in Standing(Tokens)
    BY <1>2, <1>4 DEF Standing
  <2> QED
    BY <1>3, <1>8, <2>1 DEF CheckPassword
<1>9. ASSUME NEW n \in Accounts, CheckLogin(t, n) PROVE SessionTypeOK'
  <2>1. users[n].ver \in Int
    BY <1>0 DEF SessionTypeOK
  <2>2. [Idle EXCEPT !.pc = "verified", !.name = n, !.ver = users[n].ver] \in Standing(Tokens)
    BY <2>1, StandingStarts
  <2> QED
    BY <1>3, <1>9, <2>2 DEF CheckLogin
<1>10. ASSUME NEW n \in Accounts, CheckCreate(t, n) PROVE SessionTypeOK'
  <2>1. PICK role \in {"admin", "user"} :
          Goto(t, [reqs[t] EXCEPT !.pc = "creating", !.name = n, !.role = role])
    BY <1>10 DEF CheckCreate
  <2>2. [reqs[t] EXCEPT !.pc = "creating", !.name = n, !.role = role] \in Standing(Tokens)
    BY <1>2, <1>4 DEF Standing
  <2> QED
    BY <1>3, <2>1, <2>2
<1>11. ASSUME NEW n \in Accounts, CheckDelete(t, n) PROVE SessionTypeOK'
  <2>1. [reqs[t] EXCEPT !.pc = "deleting", !.name = n] \in Standing(Tokens)
    BY <1>2, <1>4 DEF Standing
  <2> QED
    BY <1>3, <1>11, <2>1 DEF CheckDelete
<1>12. ASSUME NEW j \in Tokens, Present(t, j) PROVE SessionTypeOK'
  <2>1. Bearing(j) \in Standing(Tokens)
    BY <1>0, TokenFacts DEF Bearing, Standing, Phases
  <2> QED
    BY <1>3, <1>12, <2>1 DEF Present
<1> QED
  BY <1>5, <1>6, <1>7, <1>8, <1>9, <1>10, <1>11, <1>12 DEF Asks

\* What the request then remembers.
LEMMA AskRequest ==
  ASSUME SessionInv, NEW t \in Requests, Asks(t)
  PROVE  RequestOK(t)' /\ reqs'[t].pc \notin Revoking
<1>0. SessionTypeOK /\ RequestOK(t) /\ EndedOK
  BY DEF SessionInv
<1>1. UNCHANGED <<clock, users, revoked, byUser, issued, fresh, ended>>
  BY AskFrame
<1>2. reqs[t] \in Standing(Tokens)
  BY <1>0 DEF SessionTypeOK
<1>3. \A r : Goto(t, r) => reqs'[t] = r
  BY <1>0 DEF Goto, SessionTypeOK
<1> USE DEF RequestOK, Carrying, Revoking, Handling, Admitted, Tokens
<1>4. CASE Serve(t) \/ StoreFails(t) \/ Answer(t)
  BY <1>3, <1>4 DEF Serve, StoreFails, Answer, Idle
<1>5. CASE ReadToken(t) /\ Accepted(reqs[t].tok)
  <2>1. reqs'[t] = [reqs[t] EXCEPT !.pc = "valid", !.late = Expired(reqs[t].tok)]
    BY <1>3, <1>5 DEF ReadToken
  <2>2. reqs[t].was => Expired(reqs[t].tok)
    BY <1>0, <1>5 DEF ReadToken, EndedOK, Dead, Accepted
  <2> QED
    BY <1>0, <1>1, <1>2, <1>5, <2>1, <2>2 DEF ReadToken, Standing
<1>6. CASE SessionUser(t) /\ ~Answer(t)
  <2>1. reqs'[t] = [reqs[t] EXCEPT !.pc = "authed", !.ver = issued[reqs[t].tok].v,
                                   !.role = users[reqs[t].name].role]
    BY <1>3, <1>6 DEF SessionUser
  <2> QED
    BY <1>0, <1>1, <1>2, <1>6, <2>1 DEF SessionUser, Standing
<1>7. CASE CheckPassword(t)
  <2>1. reqs'[t] = [reqs[t] EXCEPT !.pc = "changing"]
    BY <1>3, <1>7 DEF CheckPassword
  <2> QED
    BY <1>0, <1>1, <1>2, <1>7, <2>1 DEF CheckPassword, Standing
<1>8. ASSUME NEW n \in Accounts, CheckLogin(t, n) PROVE RequestOK(t)' /\ reqs'[t].pc \notin Revoking
  <2>1. reqs'[t] = [Idle EXCEPT !.pc = "verified", !.name = n, !.ver = users[n].ver]
    BY <1>3, <1>8 DEF CheckLogin
  <2> QED
    BY <2>1 DEF Idle
<1>9. ASSUME NEW n \in Accounts, CheckCreate(t, n) PROVE RequestOK(t)' /\ reqs'[t].pc \notin Revoking
  <2>1. PICK role \in {"admin", "user"} :
          reqs'[t] = [reqs[t] EXCEPT !.pc = "creating", !.name = n, !.role = role]
    BY <1>3, <1>9 DEF CheckCreate
  <2>2. reqs[t].pc = "authed" /\ n \in Names
    BY <1>9 DEF CheckCreate
  <2> QED
    BY <1>0, <1>2, <2>1, <2>2 DEF Standing
<1>10. ASSUME NEW n \in Accounts, CheckDelete(t, n) PROVE RequestOK(t)' /\ reqs'[t].pc \notin Revoking
  <2>1. reqs'[t] = [reqs[t] EXCEPT !.pc = "deleting", !.name = n]
    BY <1>3, <1>10 DEF CheckDelete
  <2>2. reqs[t].pc = "authed" /\ n \in Names
    BY <1>10 DEF CheckDelete, Deletable, Accounts
  <2> QED
    BY <1>0, <1>2, <2>1, <2>2 DEF Standing
<1>11. ASSUME NEW j \in Tokens, Present(t, j) PROVE RequestOK(t)' /\ reqs'[t].pc \notin Revoking
  <2>1. reqs'[t] = Bearing(j)
    BY <1>3, <1>11 DEF Present
  <2>2. /\ reqs'[t].pc = "signed" /\ reqs'[t].tok = j /\ reqs'[t].name = issued[j].u
        /\ reqs'[t].was = (j \in ended)
    BY <2>1 DEF Bearing
  <2> QED
    BY <1>1, <1>11, <2>2
<1> QED
  BY <1>4, <1>5, <1>6, <1>7, <1>8, <1>9, <1>10, <1>11 DEF Asks, ReadToken

-----------------------------------------------------------------------------
(* What every step of a request leaves to show.                             *)

LEMMA OthersKept ==
  ASSUME SessionInv, NEW t \in Requests, Handler(t), NEW s \in Requests \ {t}
  PROVE  RequestOK(s)' /\ reqs'[s] = reqs[s]
<1>1. RequestOK(s) /\ SessionTypeOK
  BY DEF SessionInv
<1>2. reqs'[s] = reqs[s] /\ ended \subseteq ended'
  BY <1>1, Frame
<1>3. [Next]_vars
  BY DEF Next
<1>4. Tokens \subseteq Tokens' /\ \A j \in Tokens : issued'[j] = issued[j]
  BY <1>1, <1>3, IssuedGrows
<1>5. reqs[s].tok \in Tokens =>
        reqs'[s].tok \in Tokens' /\ issued'[reqs'[s].tok] = issued[reqs[s].tok]
  BY <1>2, <1>4
<1>6. Admitted(s)' <=> Admitted(s)
  BY <1>2 DEF Admitted
<1>7. "authed" \in Carrying
  BY DEF Carrying
<1> QED
  BY <1>1, <1>2, <1>5, <1>6, <1>7 DEF RequestOK

LEMMA LockKept ==
  ASSUME SessionInv, NEW t \in Requests, Handler(t),
         reqs'[t].pc \in Revoking => reqs[t].pc \in Revoking \/ Free
  PROVE  LockOK'
<1>1. LockOK
  BY DEF SessionInv
<1>2. \A s \in Requests \ {t} : reqs'[s] = reqs[s]
  BY OthersKept
<1> QED
  BY <1>1, <1>2 DEF LockOK, Free

LEMMA AskStep ==
  ASSUME SessionInv, NEW t \in Requests, Asks(t)
  PROVE  SessionInv'
<1>0. SessionInv /\ Handler(t)
  BY DEF Asks, Handler
<1>1. UNCHANGED <<clock, users, revoked, byUser, issued, fresh, ended>>
  BY AskFrame
<1>2. SessionTypeOK' /\ RequestOK(t)' /\ reqs'[t].pc \notin Revoking
  BY AskTypes, AskRequest
<1>3. \A s \in Requests \ {t} : RequestOK(s)' /\ reqs'[s] = reqs[s]
  BY <1>0, OthersKept
<1>4. LockOK'
  BY <1>0, <1>2, LockKept
<1>5. VersionsOK' /\ OwnersOK' /\ EndedOK'
  BY <1>1 DEF SessionInv, VersionsOK, OwnersOK, EndedOK, Expired, Dead, SameIdentity, Tokens
<1>6. IndexOK'
  BY <1>1, <1>2, <1>3 DEF SessionInv, IndexOK, Revoking
<1>7. DiscardOK'
  <2> SUFFICES ASSUME NEW s \in Requests, reqs'[s].pc = "discard", Overflow(Ids(s))'
               PROVE  \A j \in TokensOf(reqs[s].name)' : Dead(j)'
    BY DEF DiscardOK
  <2>1. s # t /\ reqs'[s] = reqs[s]
    BY <1>2, <1>3 DEF Revoking
  <2>2. Overflow(Ids(s))
    BY <1>1, <2>1 DEF Overflow, Ids
  <2>3. \A j \in TokensOf(reqs[s].name) : Dead(j)
    BY <2>1, <2>2 DEF SessionInv, DiscardOK
  <2> QED
    BY <1>1, <2>1, <2>3 DEF TokensOf, Tokens, Dead, SameIdentity
<1> QED
  BY <1>2, <1>3, <1>4, <1>5, <1>6, <1>7 DEF SessionInv

-----------------------------------------------------------------------------
(* A step that stores.                                                      *)

\* It holds the lock: no other request is between two commits.
LEMMA StoresAlone ==
  ASSUME SessionInv, NEW t \in Requests, Stores(t), NEW s \in Requests, reqs[s].pc \in Revoking
  PROVE  s = t
<1>1. Free \/ reqs[t].pc \in Revoking
  BY DEF Stores, Authenticate, Revoke, Rotate, Discard, Tombstone, IndexAndAnswer,
     ChangePassword, AddUser, DeleteUser, Revoking
<1> QED
  BY <1>1 DEF SessionInv, LockOK, Free

LEMMA StoreStep ==
  ASSUME SessionInv, NEW t \in Requests, Stores(t),
         SessionTypeOK', RequestOK(t)', VersionsOK', OwnersOK', EndedOK',
         reqs'[t].pc \in Revoking => reqs[t].pc \in Revoking \/ Free,
         reqs'[t].pc = "index" => reqs'[t].tok \in revoked',
         reqs'[t].pc = "discard" /\ Overflow(Ids(t))' =>
           \A j \in TokensOf(reqs[t].name)' : Dead(j)'
  PROVE  SessionInv'
<1>1. Handler(t)
  BY DEF Stores, Handler
<1>2. \A s \in Requests \ {t} : RequestOK(s)' /\ reqs'[s] = reqs[s]
  BY <1>1, OthersKept
<1>3. LockOK'
  BY <1>1, LockKept
<1>4. \A s \in Requests : reqs'[s].pc \in Revoking => s = t
  BY <1>2, StoresAlone
<1>5. IndexOK'
  BY <1>4 DEF IndexOK, Revoking
<1>6. DiscardOK'
  BY <1>4 DEF DiscardOK, Revoking
<1> QED
  BY <1>2, <1>3, <1>5, <1>6 DEF SessionInv

\* A new identity for a name, or none: what was dead stays dead, and every
\* token of the old identity is.
LEMMA Replaced ==
  ASSUME SessionTypeOK, VersionsOK, issued' = issued, NEW n \in Accounts,
         NEW a \in [role : {"admin", "user", "none"}, ver : Int, secret : Nat],
         users' = [users EXCEPT ![n] = a],
         \/ n \in Names /\ a = Nobody /\ fresh' = fresh
         \/ /\ fresh' = fresh + 1 /\ a.ver = fresh' /\ a.secret = users[n].secret
            /\ n \in Seeds => a.role = "admin"
  PROVE  /\ VersionsOK' /\ fresh' \in Nat
         /\ users' \in [Accounts -> [role : {"admin", "user", "none"}, ver : Int, secret : Nat]]
         /\ \A j \in Tokens : Dead(j) => Dead(j)'
         /\ \A j \in TokensOf(n) : Dead(j)'
<1>1. \A j \in Tokens : issued[j].u \in Accounts /\ issued[j].v \in Int
  BY TokenFacts
<1>2. fresh \in Nat /\ fresh' \in Nat
  BY DEF SessionTypeOK
<1>3. users' \in [Accounts -> [role : {"admin", "user", "none"}, ver : Int, secret : Nat]]
  BY DEF SessionTypeOK
<1>4. users'[n] = a /\ \A m \in Accounts \ {n} : users'[m] = users[m]
  BY DEF SessionTypeOK
<1>5. \A m \in Accounts : users[m].ver \in Int /\ users[m].secret \in Nat
  BY DEF SessionTypeOK
<1>6. users'[n].secret = users[n].secret /\ users'[n].ver \in Int
  BY <1>4, <1>5 DEF VersionsOK, Nobody
<1>7. ASSUME NEW j \in TokensOf(n) PROVE Dead(j)'
  BY <1>1, <1>2, <1>4, <1>7 DEF VersionsOK, Dead, SameIdentity, TokensOf, Nobody
<1>8. ASSUME NEW j \in Tokens, Dead(j) PROVE Dead(j)'
  <2>1. CASE issued[j].u = n
    BY <1>7, <2>1 DEF TokensOf
  <2>2. CASE issued[j].u # n
    BY <1>1, <1>4, <1>8, <2>2 DEF Dead, SameIdentity
  <2> QED
    BY <2>1, <2>2
<1>9. VersionsOK'
  <2>1. \A m \in Accounts : users'[m].ver <= fresh' /\ -users'[m].secret <= users'[m].ver
    BY <1>2, <1>4, <1>5 DEF VersionsOK, Nobody
  <2>2. \A m \in Names : users'[m].secret = 0
    BY <1>4, <1>6 DEF VersionsOK, Accounts
  <2>3. \A m \in Seeds : users'[m].role = "admin"
    BY <1>4, SessionConstants DEF VersionsOK, Accounts
  <2>4. \A m \in Accounts : users'[m].secret = users[m].secret
    BY <1>4, <1>6
  <2>5. \A j \in Tokens : /\ issued[j].proved = issued[j].v
                          /\ issued[j].v <= fresh' /\ -users'[issued[j].u].secret <= issued[j].v
    BY <1>1, <1>2, <2>4 DEF VersionsOK
  <2> QED
    BY <2>1, <2>2, <2>3, <2>5 DEF VersionsOK, Tokens
<1> QED
  BY <1>2, <1>3, <1>7, <1>8, <1>9

\* An answered request remembers nothing.
LEMMA Answered ==
  ASSUME SessionTypeOK, NEW t \in Requests, Answer(t)
  PROVE  /\ RequestOK(t)' /\ reqs'[t].pc = "idle" /\ "idle" \notin Revoking
         /\ \A toks : reqs \in [Requests -> Standing(toks)] => reqs' \in [Requests -> Standing(toks)]
<1>1. reqs'[t] = Idle
  BY DEF SessionTypeOK, Answer, Goto
<1>2. reqs'[t].pc = "idle" /\ ~reqs'[t].was
  BY <1>1 DEF Idle
<1>3. \A toks : Idle \in Standing(toks)
  BY IdleStands
<1> QED
  BY <1>2, <1>3 DEF RequestOK, Admitted, Carrying, Revoking, Handling, Answer, Goto

LEMMA AuthenticateStep ==
  ASSUME SessionInv, NEW t \in Requests, Authenticate(t)
  PROVE  SessionInv'
<1> DEFINE Payload == [u : Accounts, v : Int, exp : Nat, proved : Int]
           n == reqs[t].name
           e == [u |-> n, v |-> users[n].ver, exp |-> clock + TTL, proved |-> reqs[t].ver]
<1>0. SessionTypeOK /\ RequestOK(t) /\ VersionsOK /\ OwnersOK /\ EndedOK /\ Stores(t)
  BY DEF SessionInv, Stores
<1>1. Tokens \subseteq Tokens' /\ \A j \in Tokens : issued'[j] = issued[j]
  <2>1. [Next]_vars
    BY DEF Next, Handler
  <2> QED
    BY <1>0, <2>1, IssuedGrows
<1>2. UNCHANGED <<clock, users, revoked, byUser, fresh, ended>>
  BY DEF Authenticate, store
<1>3. \/ issued' = issued
      \/ issued' = Append(issued, e) /\ SameIdentity(n, reqs[t].ver)
  BY DEF Authenticate, Minted
<1>4. n \in Accounts /\ e \in Payload
  <2>1. n \in Accounts
    BY <1>0 DEF Authenticate, RequestOK
  <2>2. users[n].ver \in Int /\ clock + TTL \in Nat
    BY <1>0, <2>1, SessionConstants DEF SessionTypeOK
  <2>3. reqs[t].ver \in Int
    BY <1>0 DEF SessionTypeOK, Standing
  <2> QED
    BY <2>1, <2>2, <2>3
<1>5. issued \in Seq(Payload) /\ issued' \in Seq(Payload)
  <2>1. issued \in Seq(Payload)
    BY <1>0 DEF SessionTypeOK
  <2> HIDE DEF Payload, e
  <2> QED
    BY <1>3, <1>4, <2>1, AppendProperties
<1>6. \A j \in Tokens' : j \in Tokens \/ (issued'[j] = e /\ SameIdentity(n, reqs[t].ver))
  <2>1. CASE issued' = Append(issued, e) /\ SameIdentity(n, reqs[t].ver)
    <3> HIDE DEF Payload, e
    <3>1. /\ Len(issued') = Len(issued) + 1 /\ Len(issued) \in Nat
          /\ issued'[Len(issued) + 1] = e
          /\ DOMAIN issued' = 1..Len(issued') /\ DOMAIN issued = 1..Len(issued)
      BY <1>4, <1>5, <2>1, AppendProperties, LenProperties
    <3> QED
      BY <2>1, <3>1 DEF Tokens
  <2>2. CASE issued' = issued
    BY <2>2 DEF Tokens
  <2> QED
    BY <1>3, <2>1, <2>2
<1>7. SessionTypeOK'
  <2>1. byUser' \in [Accounts -> Seq(Tokens')]
    BY <1>0, <1>1, <1>2, SeqMonotonic DEF SessionTypeOK
  <2>2. reqs \in [Requests -> Standing(Tokens')]
    BY <1>0, <1>1 DEF SessionTypeOK, Standing
  <2>3. reqs' \in [Requests -> Standing(Tokens')]
    BY <1>0, <2>2, Answered DEF Authenticate
  <2> QED
    BY <1>0, <1>1, <1>2, <1>5, <2>1, <2>3 DEF SessionTypeOK
<1>8. VersionsOK'
  <2>1. \A j \in Tokens' : /\ issued'[j].proved = issued'[j].v
                           /\ issued'[j].v <= fresh /\ -users[issued'[j].u].secret <= issued'[j].v
    BY <1>0, <1>1, <1>4, <1>6 DEF VersionsOK, SameIdentity
  <2> QED
    BY <1>0, <1>2, <2>1 DEF VersionsOK
<1>9. OwnersOK'
  <2>1. \A m \in Accounts : \A i \in DOMAIN byUser[m] : byUser[m][i] \in Tokens
    BY <1>0, LenProperties, ElementOfSeq DEF SessionTypeOK
  <2> QED
    BY <1>0, <1>1, <1>2, <2>1 DEF OwnersOK
<1>10. EndedOK'
  BY <1>0, <1>1, <1>2 DEF EndedOK, SessionTypeOK, Expired, Dead, SameIdentity
<1>11. RequestOK(t)' /\ reqs'[t].pc = "idle"
  BY <1>0, Answered DEF Authenticate
<1> QED
  BY <1>0, <1>7, <1>8, <1>9, <1>10, <1>11, StoreStep DEF Revoking

\* A password change and a deletion, each with the account it leaves.
LEMMA AccountStep ==
  ASSUME SessionInv, NEW t \in Requests, ChangePassword(t) \/ AddUser(t) \/ DeleteUser(t)
  PROVE  SessionInv'
<1> DEFINE n == reqs[t].name
<1>0. /\ SessionTypeOK /\ RequestOK(t) /\ VersionsOK /\ OwnersOK /\ EndedOK /\ Stores(t)
      /\ Answer(t) /\ issued' = issued /\ UNCHANGED <<clock, revoked, byUser>>
  BY DEF SessionInv, Stores, ChangePassword, AddUser, DeleteUser
<1>1. n \in Accounts
  BY <1>0, TokenFacts DEF ChangePassword, AddUser, DeleteUser, RequestOK, Carrying, Accounts
<1>2. RequestOK(t)' /\ reqs'[t].pc = "idle" /\ reqs' \in [Requests -> Standing(Tokens)]
  BY <1>0, Answered DEF SessionTypeOK
<1>3. ASSUME UNCHANGED <<users, fresh, ended>> PROVE SessionInv'
  <2>1. SessionTypeOK' /\ VersionsOK' /\ OwnersOK' /\ EndedOK'
    BY <1>0, <1>2, <1>3
    DEF SessionTypeOK, VersionsOK, OwnersOK, EndedOK, Expired, Dead, SameIdentity, Tokens
  <2> QED
    BY <1>0, <1>2, <2>1, StoreStep DEF Revoking
<1>4. ASSUME NEW a \in [role : {"admin", "user", "none"}, ver : Int, secret : Nat],
             users' = [users EXCEPT ![n] = a],
             \/ n \in Names /\ a = Nobody /\ fresh' = fresh
             \/ /\ fresh' = fresh + 1 /\ a.ver = fresh' /\ a.secret = users[n].secret
                /\ n \in Seeds => a.role = "admin",
             ended' \in {ended, ended \cup TokensOf(n)}
      PROVE  SessionInv'
  <2>1. /\ VersionsOK' /\ fresh' \in Nat
        /\ users' \in [Accounts -> [role : {"admin", "user", "none"}, ver : Int, secret : Nat]]
        /\ \A j \in Tokens : Dead(j) => Dead(j)'
        /\ \A j \in TokensOf(n) : Dead(j)'
    BY <1>0, <1>1, <1>4, Replaced
  <2>2. SessionTypeOK'
    BY <1>0, <1>2, <1>4, <2>1 DEF SessionTypeOK, Tokens, TokensOf
  <2>3. OwnersOK'
    BY <1>0 DEF OwnersOK
  <2>4. EndedOK'
    BY <1>0, <1>4, <2>1 DEF EndedOK, SessionTypeOK, Expired
  <2> QED
    BY <1>0, <1>2, <2>1, <2>2, <2>3, <2>4, StoreStep DEF Revoking
<1>5. users[n] \in [role : {"admin", "user", "none"}, ver : Int, secret : Nat] /\ fresh \in Nat
  BY <1>0, <1>1 DEF SessionTypeOK
<1>6. CASE ChangePassword(t) /\ SameIdentity(n, reqs[t].ver)
  <2> DEFINE a == [users[n] EXCEPT !.ver = fresh']
  <2>1. /\ fresh' = fresh + 1 /\ users' = [users EXCEPT ![n] = a]
        /\ ended' = ended \cup TokensOf(n)
    BY <1>6 DEF ChangePassword, NewVersion
  <2>2. /\ a \in [role : {"admin", "user", "none"}, ver : Int, secret : Nat]
        /\ a.ver = fresh' /\ a.secret = users[n].secret /\ a.role = users[n].role
    BY <1>5, <2>1
  <2> HIDE DEF a
  <2> QED
    BY <1>0, <1>4, <2>1, <2>2 DEF VersionsOK
<1>7. CASE ChangePassword(t) /\ ~SameIdentity(n, reqs[t].ver)
  BY <1>3, <1>7 DEF ChangePassword
<1>8. CASE AddUser(t) /\ users[n] = Nobody
  <2> DEFINE a == [role |-> reqs[t].role, ver |-> fresh', secret |-> 0]
  <2>1. /\ fresh' = fresh + 1 /\ users' = [users EXCEPT ![n] = a] /\ ended' = ended
        /\ n \in Names
    BY <1>0, <1>8 DEF AddUser, NewVersion, RequestOK
  <2>2. reqs[t].role \in {"admin", "user", "none"}
    BY <1>0 DEF SessionTypeOK, Standing
  <2>3. a \in [role : {"admin", "user", "none"}, ver : Int, secret : Nat]
    BY <1>5, <2>1, <2>2
  <2>4. a.secret = users[n].secret /\ n \notin Seeds
    BY <1>0, <2>1, SessionConstants DEF VersionsOK
  <2>5. a.ver = fresh'
    OBVIOUS
  <2> HIDE DEF a
  <2> QED
    BY <1>4, <2>1, <2>3, <2>4, <2>5
<1>9. CASE AddUser(t) /\ users[n] # Nobody
  BY <1>3, <1>9 DEF AddUser
<1>10. CASE DeleteUser(t)
  <2>1. /\ users' = [users EXCEPT ![n] = Nobody] /\ ended' = ended \cup TokensOf(n)
        /\ fresh' = fresh /\ n \in Names
    BY <1>0, <1>10 DEF DeleteUser, RequestOK
  <2>2. Nobody \in [role : {"admin", "user", "none"}, ver : Int, secret : Nat]
    BY DEF Nobody
  <2> QED
    BY <1>4, <2>1, <2>2
<1> QED
  BY <1>6, <1>7, <1>8, <1>9, <1>10

-----------------------------------------------------------------------------
(* The five steps of a logout.                                              *)

LEMMA MovesOn ==
  ASSUME SessionInv, NEW t \in Requests, reqs[t].pc \in Revoking \cup {"authed"},
         NEW p \in Revoking, Goto(t, [reqs[t] EXCEPT !.pc = p]), issued' = issued
  PROVE  /\ RequestOK(t)' /\ reqs' \in [Requests -> Standing(Tokens)]
         /\ reqs'[t].pc = p /\ reqs'[t].name = reqs[t].name /\ reqs'[t].tok = reqs[t].tok
<1>1. SessionTypeOK /\ RequestOK(t)
  BY DEF SessionInv
<1>2. reqs[t] \in Standing(Tokens)
  BY <1>1 DEF SessionTypeOK
<1>3. [reqs[t] EXCEPT !.pc = p] \in Standing(Tokens)
  BY <1>2 DEF Standing, Phases
<1>4. reqs' \in [Requests -> Standing(Tokens)] /\ reqs'[t] = [reqs[t] EXCEPT !.pc = p]
  BY <1>1, <1>3 DEF SessionTypeOK, Goto
<1>5. /\ reqs'[t].pc = p /\ reqs'[t].name = reqs[t].name /\ reqs'[t].tok = reqs[t].tok
      /\ reqs'[t].was = reqs[t].was /\ reqs'[t].late = reqs[t].late
  BY <1>2, <1>4 DEF Standing
<1>6. RequestOK(t)'
  BY <1>1, <1>5 DEF RequestOK, Admitted, Carrying, Revoking, Handling, Tokens
<1> QED
  BY <1>4, <1>5, <1>6

\* The tombstones of a user, this logout's included, are of its own tokens.
LEMMA IdsOwned ==
  ASSUME SessionInv, NEW t \in Requests, reqs[t].pc \in Revoking
  PROVE  /\ reqs[t].name \in Accounts /\ reqs[t].tok \in TokensOf(reqs[t].name)
         /\ Ids(t) \in Seq(TokensOf(reqs[t].name))
<1> DEFINE n == reqs[t].name  ids == byUser[n]  S == TokensOf(n)
<1>1. SessionTypeOK /\ RequestOK(t) /\ OwnersOK
  BY DEF SessionInv
<1>2. n \in Accounts /\ reqs[t].tok \in S
  BY <1>1, TokenFacts DEF RequestOK, Carrying, TokensOf
<1>3. ids \in Seq(Tokens)
  BY <1>1, <1>2 DEF SessionTypeOK
<1>4. Len(ids) \in Nat /\ DOMAIN ids = 1..Len(ids) /\ ids \in [1..Len(ids) -> Tokens]
  BY <1>3, LenProperties
<1>5. \A i \in 1..Len(ids) : ids[i] \in S
  BY <1>1, <1>2, <1>4 DEF OwnersOK, TokensOf
<1>6. ids \in Seq(S)
  <2> HIDE DEF ids, S
  <2> QED
    BY <1>4, <1>5
<1>7. Append(ids, reqs[t].tok) \in Seq(S)
  <2> HIDE DEF ids, S
  <2> QED
    BY <1>2, <1>6, AppendProperties
<1> QED
  BY <1>2, <1>6, <1>7 DEF Ids

LEMMA RevokeStep ==
  ASSUME SessionInv, NEW t \in Requests, Revoke(t)
  PROVE  SessionInv'
<1>0. SessionTypeOK /\ VersionsOK /\ OwnersOK /\ EndedOK /\ Stores(t)
  BY DEF SessionInv, Stores
<1>1. UNCHANGED <<clock, users, issued, fresh, ended>>
  BY DEF Revoke
<1>2. RequestOK(t)' /\ reqs' \in [Requests -> Standing(Tokens)] /\ reqs'[t].pc = "rotate"
  BY <1>1, MovesOn DEF Revoke, Revoking
<1>3. \A n \in Accounts : byUser[n] \in Seq(Tokens)
  BY <1>0 DEF SessionTypeOK
<1>4. byUser' = [n \in Accounts |-> Kept(byUser[n], Pruned)] /\ revoked' = Pruned
  BY DEF Revoke
<1>5. \A n \in Accounts : byUser'[n] \in Seq(Tokens)
  BY <1>3, <1>4, KeptEntries
<1>6. SessionTypeOK'
  BY <1>0, <1>1, <1>2, <1>4, <1>5 DEF SessionTypeOK, Tokens, Pruned
<1>7. OwnersOK'
  BY <1>0, <1>1, <1>3, <1>4, KeptEntries DEF OwnersOK
<1>8. VersionsOK'
  BY <1>0, <1>1 DEF VersionsOK, Tokens
<1>9. EndedOK'
  BY <1>0, <1>1, <1>4 DEF EndedOK, Pruned, Expired, Dead, SameIdentity
<1> QED
  BY <1>0, <1>2, <1>6, <1>7, <1>8, <1>9, StoreStep DEF Revoke

LEMMA RotateStep ==
  ASSUME SessionInv, NEW t \in Requests, Rotate(t)
  PROVE  SessionInv'
<1> DEFINE n == reqs[t].name  a == [users[n] EXCEPT !.ver = fresh']
<1>0. SessionTypeOK /\ VersionsOK /\ OwnersOK /\ EndedOK /\ Stores(t) /\ reqs[t].pc \in Revoking
  BY DEF SessionInv, Stores, Rotate, Revoking
<1>1. UNCHANGED <<clock, revoked, byUser, issued>>
  BY DEF Rotate
<1>2. /\ RequestOK(t)' /\ reqs' \in [Requests -> Standing(Tokens)] /\ reqs'[t].pc = "discard"
      /\ reqs'[t].name = n /\ reqs'[t].tok = reqs[t].tok
  BY <1>0, <1>1, MovesOn DEF Rotate, Revoking
<1>3. n \in Accounts
  BY <1>0, IdsOwned
<1>4. OwnersOK'
  BY <1>0, <1>1 DEF OwnersOK
<1>5. Ids(t)' = Ids(t) /\ TokensOf(n)' = TokensOf(n)
  BY <1>1, <1>2 DEF Ids, TokensOf, Tokens
<1>6. CASE Overflow(Ids(t)) /\ users[n] # Nobody
  <2>1. fresh' = fresh + 1 /\ users' = [users EXCEPT ![n] = a] /\ ended' = ended \cup TokensOf(n)
    BY <1>6 DEF Rotate, NewVersion
  <2>2. /\ a \in [role : {"admin", "user", "none"}, ver : Int, secret : Nat]
        /\ a.ver = fresh' /\ a.secret = users[n].secret /\ a.role = users[n].role
    <3>1. users[n] \in [role : {"admin", "user", "none"}, ver : Int, secret : Nat] /\ fresh \in Nat
      BY <1>0, <1>3 DEF SessionTypeOK
    <3> QED
      BY <2>1, <3>1
  <2>3. n \in Seeds => a.role = "admin"
    BY <1>0, <2>2 DEF VersionsOK
  <2> HIDE DEF a
  <2>4. /\ VersionsOK' /\ fresh' \in Nat
        /\ users' \in [Accounts -> [role : {"admin", "user", "none"}, ver : Int, secret : Nat]]
        /\ \A j \in Tokens : Dead(j) => Dead(j)'
        /\ \A j \in TokensOf(n) : Dead(j)'
    BY <1>0, <1>1, <1>3, <2>1, <2>2, <2>3, Replaced
  <2>5. SessionTypeOK'
    BY <1>0, <1>1, <1>2, <2>1, <2>4 DEF SessionTypeOK, Tokens, TokensOf
  <2>6. EndedOK'
    BY <1>0, <1>1, <2>1, <2>4 DEF EndedOK, SessionTypeOK, Expired
  <2> QED
    BY <1>0, <1>2, <1>4, <1>5, <2>4, <2>5, <2>6, StoreStep
<1>7. CASE ~(Overflow(Ids(t)) /\ users[n] # Nobody)
  <2>1. UNCHANGED <<users, fresh, ended>>
    BY <1>7 DEF Rotate
  <2>2. SessionTypeOK' /\ VersionsOK' /\ EndedOK'
    BY <1>0, <1>1, <1>2, <2>1
    DEF SessionTypeOK, VersionsOK, EndedOK, Expired, Dead, SameIdentity, Tokens
  <2>3. Overflow(Ids(t)) => \A j \in TokensOf(n) : Dead(j)'
    BY <1>1, <1>7, <2>1 DEF Dead, SameIdentity, TokensOf
  <2>4. Overflow(Ids(t))' = Overflow(Ids(t))
    BY <1>5 DEF Overflow
  <2> QED
    BY <1>0, <1>2, <1>4, <1>5, <2>2, <2>3, <2>4, StoreStep
<1> QED
  BY <1>6, <1>7

LEMMA DiscardStep ==
  ASSUME SessionInv, NEW t \in Requests, Discard(t)
  PROVE  SessionInv'
<1> DEFINE ids == Ids(t)
<1>0. /\ SessionTypeOK /\ VersionsOK /\ OwnersOK /\ EndedOK /\ DiscardOK
      /\ Stores(t) /\ reqs[t].pc \in Revoking
  BY DEF SessionInv, Stores, Discard, Revoking
<1>1. UNCHANGED <<clock, users, byUser, issued, fresh, ended>> /\ revoked' = revoked \ Surplus(ids)
  BY DEF Discard
<1>2. RequestOK(t)' /\ reqs' \in [Requests -> Standing(Tokens)] /\ reqs'[t].pc = "tomb"
  BY <1>0, <1>1, MovesOn DEF Discard, Revoking
<1>3. ids \in Seq(TokensOf(reqs[t].name))
  BY <1>0, IdsOwned
<1>4. \A j \in Surplus(ids) : Overflow(ids) /\ j \in TokensOf(reqs[t].name)
  <2> SUFFICES ASSUME NEW i \in 1..(Len(ids) - RevokedPerUser)
               PROVE  Overflow(ids) /\ ids[i] \in TokensOf(reqs[t].name)
    BY DEF Surplus
  <2> HIDE DEF ids
  <2>1. Len(ids) \in Nat
    BY <1>3, LenProperties
  <2>2. i \in 1..Len(ids) /\ Len(ids) > RevokedPerUser
    BY <2>1, SessionConstants
  <2> QED
    BY <1>3, <2>2, ElementOfSeq DEF Overflow
<1>5. \A j \in Surplus(ids) : Dead(j)
  BY <1>0, <1>4 DEF DiscardOK, Discard
<1>6. EndedOK'
  BY <1>0, <1>1, <1>5 DEF EndedOK, Expired, Dead, SameIdentity
<1>7. SessionTypeOK' /\ VersionsOK' /\ OwnersOK'
  BY <1>0, <1>1, <1>2 DEF SessionTypeOK, VersionsOK, OwnersOK, Tokens
<1> QED
  BY <1>0, <1>2, <1>6, <1>7, StoreStep

LEMMA TombstoneStep ==
  ASSUME SessionInv, NEW t \in Requests, Tombstone(t)
  PROVE  SessionInv'
<1>0. /\ SessionTypeOK /\ VersionsOK /\ OwnersOK /\ EndedOK
      /\ Stores(t) /\ reqs[t].pc \in Revoking
  BY DEF SessionInv, Stores, Tombstone, Revoking
<1>1. UNCHANGED <<clock, users, byUser, issued, fresh, ended>> /\ revoked' = revoked \cup {reqs[t].tok}
  BY DEF Tombstone
<1>2. /\ RequestOK(t)' /\ reqs' \in [Requests -> Standing(Tokens)] /\ reqs'[t].pc = "index"
      /\ reqs'[t].tok = reqs[t].tok
  BY <1>0, <1>1, MovesOn DEF Tombstone, Revoking
<1>3. reqs[t].tok \in Tokens
  BY <1>0, IdsOwned DEF TokensOf
<1>4. EndedOK'
  BY <1>0, <1>1 DEF EndedOK, Expired, Dead, SameIdentity
<1>5. SessionTypeOK' /\ VersionsOK' /\ OwnersOK'
  BY <1>0, <1>1, <1>2, <1>3 DEF SessionTypeOK, VersionsOK, OwnersOK, Tokens
<1> QED
  BY <1>0, <1>1, <1>2, <1>4, <1>5, StoreStep

LEMMA IndexStep ==
  ASSUME SessionInv, NEW t \in Requests, IndexAndAnswer(t)
  PROVE  SessionInv'
<1> DEFINE n == reqs[t].name  ids == Ids(t)
<1>0. /\ SessionTypeOK /\ VersionsOK /\ OwnersOK /\ EndedOK /\ IndexOK
      /\ Stores(t) /\ reqs[t].pc \in Revoking
  BY DEF SessionInv, Stores, IndexAndAnswer, Revoking
<1>1. /\ UNCHANGED <<clock, users, revoked, issued, fresh>>
      /\ byUser' = [byUser EXCEPT ![n] = Fitting(ids)] /\ ended' = ended \cup {reqs[t].tok}
  BY DEF IndexAndAnswer
<1>2. RequestOK(t)' /\ reqs'[t].pc = "idle" /\ reqs' \in [Requests -> Standing(Tokens)]
  BY <1>0, Answered DEF IndexAndAnswer, SessionTypeOK
<1>3. n \in Accounts /\ reqs[t].tok \in TokensOf(n) /\ ids \in Seq(TokensOf(n))
  BY <1>0, IdsOwned
<1>4. Fitting(ids) \in Seq(TokensOf(n))
  <2> HIDE DEF ids, n
  <2>1. Len(ids) \in Nat /\ RevokedPerUser \in Nat
    BY <1>3, LenProperties, SessionConstants
  <2>2. CASE Overflow(ids)
    <3>1. \A i \in (Len(ids) - RevokedPerUser + 1)..Len(ids) : ids[i] \in TokensOf(n)
      BY <1>3, <2>1, <2>2, ElementOfSeq DEF Overflow
    <3>2. SubSeq(ids, Len(ids) - RevokedPerUser + 1, Len(ids)) \in Seq(TokensOf(n))
      BY <2>1, <3>1, SubSeqProperties
    <3> QED
      BY <2>2, <3>2 DEF Fitting
  <2>3. CASE ~Overflow(ids)
    BY <1>3, <2>3 DEF Fitting
  <2> QED
    BY <2>2, <2>3
<1>5. /\ Fitting(ids) \in Seq(Tokens)
      /\ \A i \in DOMAIN Fitting(ids) : issued[Fitting(ids)[i]].u = n
  <2> DEFINE fit == Fitting(ids)
  <2>1. \A i \in DOMAIN fit : fit[i] \in TokensOf(n)
    <3> HIDE DEF fit
    <3> QED
      BY <1>4, LenProperties, ElementOfSeq DEF fit
  <2>2. TokensOf(n) \subseteq Tokens
    BY DEF TokensOf
  <2>3. fit \in Seq(Tokens)
    BY <1>4, <2>2, SeqMonotonic
  <2> QED
    BY <2>1, <2>3 DEF TokensOf
<1> HIDE DEF ids
<1>6. OwnersOK'
  BY <1>0, <1>1, <1>3, <1>5 DEF OwnersOK, SessionTypeOK
<1>7. EndedOK'
  BY <1>0, <1>1 DEF EndedOK, IndexOK, IndexAndAnswer, Expired, Dead, SameIdentity
<1>8. SessionTypeOK' /\ VersionsOK'
  BY <1>0, <1>1, <1>2, <1>3, <1>5 DEF SessionTypeOK, VersionsOK, Tokens, TokensOf
<1> QED
  BY <1>0, <1>2, <1>6, <1>7, <1>8, StoreStep DEF Revoking

-----------------------------------------------------------------------------
(* A restart, and the time.                                                 *)

LEMMA RestartStep == SessionInv /\ Restart => SessionInv'
<1> SUFFICES ASSUME SessionInv, Restart PROVE SessionInv'
  OBVIOUS
<1> DEFINE Record == [role : {"admin", "user", "none"}, ver : Int, secret : Nat]
<1>0. SessionTypeOK /\ VersionsOK /\ OwnersOK /\ EndedOK
  BY DEF SessionInv
<1>1. /\ UNCHANGED <<clock, issued, fresh>> /\ revoked' = Pruned
      /\ byUser' = [n \in Accounts |-> Kept(byUser[n], Pruned)]
      /\ reqs' = [t \in Requests |-> Idle]
  BY DEF Restart
<1>2. PICK secret \in [Seeds -> 1..MaxSecrets] :
        /\ \A n \in Seeds : secret[n] >= users[n].secret
        /\ users' = [n \in Accounts |->
             IF n \in Seeds
               THEN [role |-> "admin", ver |-> SeedVersion(n, secret[n]), secret |-> secret[n]]
               ELSE users[n]]
        /\ ended' = ended \cup UNION {TokensOf(n) : n \in {s \in Seeds : secret[s] # users[s].secret}}
  BY DEF Restart
<1>3. \A n \in Seeds : secret[n] \in Nat /\ secret[n] >= 1 /\ n \in Accounts
  BY <1>2, SessionConstants DEF Accounts
<1>4. \A n \in Accounts : users[n] \in Record /\ users[n].ver \in Int /\ users[n].secret \in Nat
  BY <1>0 DEF SessionTypeOK
<1>5. \A n \in Accounts \ Seeds : users'[n] = users[n]
  BY <1>2
<1>6. \A n \in Seeds : /\ users'[n].ver = SeedVersion(n, secret[n]) /\ users'[n].secret = secret[n]
                       /\ users'[n].role = "admin" /\ users'[n].ver \in Int
  BY <1>2, <1>3, <1>4 DEF SeedVersion
<1>7. users' \in [Accounts -> Record]
  <2>1. \A n \in Seeds :
          [role |-> "admin", ver |-> SeedVersion(n, secret[n]), secret |-> secret[n]] \in Record
    BY <1>3, <1>4 DEF SeedVersion
  <2> HIDE DEF Record
  <2> QED
    BY <1>2, <1>4, <2>1
<1>8. \A t \in Requests : reqs'[t] = Idle /\ reqs'[t].pc = "idle" /\ ~reqs'[t].was
  BY <1>1 DEF Idle
<1>9. \A n \in Accounts : byUser[n] \in Seq(Tokens)
  BY <1>0 DEF SessionTypeOK
<1>10. \A n \in Accounts : byUser'[n] \in Seq(Tokens)
  BY <1>1, <1>9, KeptEntries
<1>11. SessionTypeOK'
  <2>1. reqs' \in [Requests -> Standing(Tokens)]
    BY <1>1, IdleStands
  <2>2. ended' \subseteq Tokens
    BY <1>0, <1>2 DEF SessionTypeOK, TokensOf
  <2> QED
    BY <1>0, <1>1, <1>7, <1>10, <2>1, <2>2 DEF SessionTypeOK, Tokens, Pruned
<1>12. OwnersOK'
  BY <1>0, <1>1, <1>9, KeptEntries DEF OwnersOK
<1>13. \A n \in Accounts : users'[n].secret >= users[n].secret /\ users'[n].secret \in Nat
  BY <1>2, <1>3, <1>4, <1>5, <1>6
<1>14. VersionsOK'
  <2>1. \A n \in Accounts : users'[n].ver <= fresh /\ -users'[n].secret <= users'[n].ver
    BY <1>0, <1>2, <1>3, <1>4, <1>5, <1>6 DEF VersionsOK, SeedVersion, SessionTypeOK
  <2>2. \A n \in Names : users'[n].secret = 0
    BY <1>0, <1>5, SessionConstants DEF VersionsOK, Accounts
  <2>3. \A j \in Tokens : issued[j].u \in Accounts /\ issued[j].v \in Int
    BY <1>0, TokenFacts
  <2>4. \A j \in Tokens : -users'[issued[j].u].secret <= issued[j].v
    BY <1>0, <1>4, <1>13, <2>3 DEF VersionsOK
  <2> QED
    BY <1>0, <1>1, <1>6, <2>1, <2>2, <2>4 DEF VersionsOK, Tokens
<1>15. ASSUME NEW n \in Seeds, secret[n] # users[n].secret, NEW j \in TokensOf(n) PROVE Dead(j)'
  <2>1. issued[j].u = n /\ issued[j].v \in Int /\ -users[n].secret <= issued[j].v
    BY <1>0, <1>15, TokenFacts DEF TokensOf, VersionsOK
  <2>2. users'[n].ver = -secret[n] /\ secret[n] > users[n].secret
    <3>1. users'[n].ver = -secret[n]
      BY <1>6, <1>15 DEF SeedVersion
    <3>2. secret[n] >= users[n].secret /\ secret[n] \in Nat /\ users[n].secret \in Nat
      BY <1>2, <1>3, <1>4
    <3> QED
      BY <1>15, <3>1, <3>2
  <2>3. users'[n].ver # issued[j].v
    BY <1>3, <1>4, <2>1, <2>2
  <2> QED
    BY <1>1, <2>1, <2>3 DEF Dead, SameIdentity
<1>16. ASSUME NEW j \in Tokens, Dead(j) PROVE Dead(j)'
  <2> DEFINE n == issued[j].u
  <2>1. n \in Accounts
    BY <1>0, TokenFacts
  <2>2. CASE n \notin Seeds
    BY <1>1, <1>5, <1>16, <2>1, <2>2 DEF Dead, SameIdentity
  <2>3. CASE n \in Seeds /\ secret[n] # users[n].secret
    BY <1>15, <2>3 DEF TokensOf
  <2>4. CASE n \in Seeds /\ secret[n] = users[n].secret
    <3>1. users[n].role = "admin" /\ users[n] # Nobody
      BY <1>0, <2>4 DEF VersionsOK, Nobody
    <3>2. users'[n].ver = users[n].ver
      BY <1>6, <2>4 DEF SeedVersion
    <3> QED
      BY <1>1, <1>16, <3>1, <3>2 DEF Dead, SameIdentity
  <2> QED
    BY <2>2, <2>3, <2>4
<1>17. EndedOK'
  <2> SUFFICES ASSUME NEW j \in ended' PROVE (Expired(j) \/ j \in revoked \/ Dead(j))'
    BY DEF EndedOK
  <2>1. CASE j \in ended
    BY <1>0, <1>1, <1>16, <2>1 DEF EndedOK, SessionTypeOK, Pruned, Expired
  <2>2. CASE j \notin ended
    BY <1>2, <1>15, <2>2
  <2> QED
    BY <2>1, <2>2
<1>18. (\A t \in Requests : RequestOK(t))' /\ LockOK' /\ DiscardOK' /\ IndexOK'
  BY <1>8 DEF RequestOK, LockOK, DiscardOK, IndexOK, Admitted, Carrying, Revoking, Handling
<1> QED
  BY <1>11, <1>12, <1>14, <1>17, <1>18 DEF SessionInv

LEMMA TimeStep == SessionInv /\ (TimePasses \/ UNCHANGED vars) => SessionInv'
<1> SUFFICES ASSUME SessionInv, TimePasses \/ UNCHANGED vars PROVE SessionInv'
  OBVIOUS
<1>1. UNCHANGED <<users, revoked, byUser, issued, fresh, reqs, ended>>
  BY DEF TimePasses, vars, store
<1>2. clock \in Nat /\ clock' \in Nat /\ clock' >= clock
  BY DEF TimePasses, vars, SessionInv, SessionTypeOK
<1>3. SessionTypeOK' /\ VersionsOK' /\ OwnersOK' /\ LockOK' /\ IndexOK'
  BY <1>1, <1>2 DEF SessionInv, SessionTypeOK, VersionsOK, OwnersOK, LockOK, IndexOK, Tokens
<1>4. (\A t \in Requests : RequestOK(t))'
  BY <1>1 DEF SessionInv, RequestOK, Admitted, Tokens
<1>5. DiscardOK'
  BY <1>1 DEF SessionInv, DiscardOK, Overflow, Ids, TokensOf, Tokens, Dead, SameIdentity
<1>6. EndedOK'
  <2>1. \A j \in Tokens : issued[j].exp \in Nat
    BY TokenFacts DEF SessionInv
  <2>2. \A j \in Tokens : Expired(j) => Expired(j)'
    BY <1>1, <1>2, <2>1 DEF Expired
  <2> QED
    BY <1>1, <2>2 DEF SessionInv, SessionTypeOK, EndedOK, Dead, SameIdentity
<1> QED
  BY <1>3, <1>4, <1>5, <1>6 DEF SessionInv

LEMMA SessionStep == SessionInv /\ [Next]_vars => SessionInv'
<1> SUFFICES ASSUME SessionInv, [Next]_vars PROVE SessionInv'
  OBVIOUS
<1>1. ASSUME NEW t \in Requests, Handler(t) PROVE SessionInv'
  BY <1>1, HandlerSplit, AskStep, AuthenticateStep, RevokeStep, RotateStep, DiscardStep,
     TombstoneStep, IndexStep, AccountStep DEF Stores
<1> QED
  BY <1>1, RestartStep, TimeStep DEF Next

\* The types, for any accounts, threads and bounds.
THEOREM SessionTypes == Spec => []SessionTypeOK
<1>1. SessionInv => SessionTypeOK
  BY DEF SessionInv
<1> QED
  BY <1>1, SessionInit, SessionStep, PTL DEF Spec

\* A session that was ended before a request began does not admit it.
THEOREM EndedForGood == Spec => []EndedStaysEnded
<1>1. SessionInv => EndedStaysEnded
  BY DEF SessionInv, RequestOK, EndedStaysEnded
<1> QED
  BY <1>1, SessionInit, SessionStep, PTL DEF Spec

\* A request acts for the identity whose password opened its session.
THEOREM IdentityProved == Spec => []ProvedIdentity
<1>1. SessionInv => ProvedIdentity
  BY DEF SessionInv, RequestOK, VersionsOK, ProvedIdentity, Carrying
<1> QED
  BY <1>1, SessionInit, SessionStep, PTL DEF Spec
=============================================================================
