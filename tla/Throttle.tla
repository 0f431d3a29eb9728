------------------------------ MODULE Throttle ------------------------------
(***************************************************************************)
(* services/gateway: one LoginThrottle, shared by the threads that check a *)
(* password for a login or a password change.  A thread asks, hashes for   *)
(* the better part of a second outside the lock, then reports; others ask  *)
(* and report in between.  The gateway has two instances, keyed by source  *)
(* address and by account; they share nothing, and an attempt asks both.   *)
(***************************************************************************)
EXTENDS Integers, Sequences, FiniteSets

CONSTANTS
  Keys,     \* addresses or account names
  Threads,
  Window, MaxFails, Lockout,   \* the policy
  MaxKeys,  \* MAX_KEYS
  MaxTime   \* bound on the clock

ASSUME ThrottleConstants ==
  /\ IsFiniteSet(Keys) /\ Window \in Nat \ {0} /\ MaxFails \in Nat \ {0} /\ Lockout \in Nat \ {0}
  /\ MaxKeys \in Nat \ {0} /\ MaxTime \in Nat

VARIABLES
  now,
  fails,     \* _fails: key -> times of its failures, oldest first
  until,     \* _until: key -> end of its lockout, 0 when there is none
  checking,  \* thread -> the key whose password it is hashing
  counted    \* every failure reported for a key since its last success, while it matters

vars == <<now, fails, until, checking, counted>>

NoKey == "none"

ASSUME NoKeyApart == NoKey \notin Keys

Known(f, u, k) == f[k] # <<>> \/ u[k] # 0
Size(f, u) == Cardinality({k \in Keys : f[k] # <<>>}) + Cardinality({k \in Keys : u[k] # 0})

Init ==
  /\ now = 1
  /\ fails = [k \in Keys |-> <<>>] /\ until = [k \in Keys |-> 0]
  /\ checking = [t \in Threads |-> NoKey] /\ counted = fails

\* Times are kept oldest first: those after cut are the last ones.
After(times, cut) ==
  SubSeq(times, Cardinality({i \in DOMAIN times : times[i] <= cut}) + 1, Len(times))
Since(times, span) == After(times, now - span)

\* _sweep(): what can no longer change an answer.
SweptFails == [k \in Keys |-> IF Since(fails[k], Window) = <<>> THEN <<>> ELSE fails[k]]
\* Mutant: a sweep makes room at the cost of the locked keys.
SweptAll == [k \in Keys |-> 0]
SweptUntil == [k \in Keys |-> IF until[k] <= now THEN 0 ELSE until[k]]

\* The maps as retry_after() and record_failure() find them after the sweep.
Full       == Size(fails, until) >= MaxKeys
FailsNow   == IF Full THEN SweptFails ELSE fails
UntilNow   == IF Full THEN SweptUntil ELSE until
StillFull  == Size(FailsNow, UntilNow) >= MaxKeys

\* retry_after(): unknown keys are refused at capacity, locked ones until
\* their time; an expired lockout is dropped on the way.
Ask(t, k) ==
  /\ checking[t] = NoKey
  /\ fails' = FailsNow
  /\ IF StillFull /\ ~Known(FailsNow, UntilNow, k)
       THEN until' = UntilNow /\ UNCHANGED checking
       ELSE IF UntilNow[k] > now
         THEN until' = UntilNow /\ UNCHANGED checking
         ELSE until' = [UntilNow EXCEPT ![k] = 0] /\ checking' = [checking EXCEPT ![t] = k]
  /\ UNCHANGED <<now, counted>>

\* Mutant: a key nobody knows is recorded at capacity as well.
NeverUncounted(k) == FALSE

\* A key that came to be unknown at capacity while it was being checked.
Uncounted(k) == StillFull /\ ~Known(FailsNow, UntilNow, k)

\* Mutant: only the latest failure is kept.
HitsForgotten(k) == <<now>>

Hits(k) == Append(Since(FailsNow[k], Window), now)

Shorter == IF Window < Lockout THEN Window ELSE Lockout

\* Mutant: the failures that led to a lockout are kept.
LockKeepingHits(k) ==
  until' = [UntilNow EXCEPT ![k] = now + Lockout] /\ fails' = [FailsNow EXCEPT ![k] = Hits(k)]

\* The key is locked out and starts from nothing after that.
Lock(k) ==
  until' = [UntilNow EXCEPT ![k] = now + Lockout] /\ fails' = [FailsNow EXCEPT ![k] = <<>>]

\* record_failure(), whose clock is read just before the lock is taken (604-605):
\* here the two are one step.
Wrong(t) ==
  /\ checking[t] # NoKey /\ checking' = [checking EXCEPT ![t] = NoKey]
  /\ LET k == checking[t] IN
     IF Uncounted(k)
       THEN fails' = FailsNow /\ until' = UntilNow /\ UNCHANGED counted
       ELSE /\ counted' = [counted EXCEPT ![k] = Append(@, now)]
            /\ IF Len(Hits(k)) >= MaxFails
                 THEN Lock(k)
                 ELSE fails' = [FailsNow EXCEPT ![k] = Hits(k)] /\ until' = UntilNow
  /\ UNCHANGED now

\* record_success() clears the failures, never a lockout.
Pardon(k) == fails' = [fails EXCEPT ![k] = <<>>] /\ UNCHANGED until

Right(t) ==
  /\ checking[t] # NoKey /\ checking' = [checking EXCEPT ![t] = NoKey]
  /\ Pardon(checking[t]) /\ counted' = [counted EXCEPT ![checking[t]] = <<>>]
  /\ UNCHANGED now

\* The history keeps what the properties look at.
TimePasses ==
  /\ now < MaxTime /\ now' = now + 1
  /\ counted' = [k \in Keys |-> After(counted[k], now' - Shorter)]
  /\ UNCHANGED <<fails, until, checking>>

Next ==
  \/ TimePasses
  \/ \E t \in Threads : Wrong(t) \/ Right(t) \/ \E k \in Keys : Ask(t, k)

Spec == Init /\ [][Next]_vars

-----------------------------------------------------------------------------
\* Types; and no list of failures reaches max_fails: the key would have been
\* locked out and the list dropped.
ThrottleTypeOK ==
  /\ now \in Nat
  /\ fails \in [Keys -> Seq(1..now)] /\ \A k \in Keys : Len(fails[k]) < MaxFails
  /\ until \in [Keys -> 0..(now + Lockout)] /\ checking \in [Threads -> Keys \cup {NoKey}]
  /\ counted \in [Keys -> Seq(Nat)]

\* gateway.py:554 "so they must be bounded": never more than MAX_KEYS keys are
\* held, though a failure is reported long after its key was let in.
KeysBounded == Cardinality({k \in Keys : Known(fails, until, k)}) <= MaxKeys

\* A lockout lasts until its time, whatever sweeps, successes and late failures
\* of other threads come before.
LockoutLasts ==
  [][\A k \in Keys : until[k] > now => until'[k] >= until[k]]_vars

\* The policy itself: a password is looked at only while fewer than max_fails
\* failures since the key's last success lie in the window (or in the span of
\* a lockout, when that is shorter).
WithinPolicy ==
  [][\A t \in Threads : checking[t] = NoKey /\ checking'[t] # NoKey
       => Len(counted[checking'[t]]) < MaxFails]_vars
=============================================================================
