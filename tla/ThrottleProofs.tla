--------------------------- MODULE ThrottleProofs ---------------------------
(***************************************************************************)
(* For any number of addresses or accounts, of threads and any policy: the *)
(* throttle's memory is bounded, a lockout lasts, and nobody's password is *)
(* looked at more often than the policy allows.                            *)
(***************************************************************************)
EXTENDS Throttle, FiniteSetTheorems, SequenceTheorems, TLAPS

KnownKeys(f, u) == {k \in Keys : Known(f, u, k)}

\* A lockout ends at most Lockout from now, and the known keys are bounded.
ThrottleInv ==
  /\ now \in Nat
  /\ fails = [k \in Keys |-> fails[k]]
  /\ until \in [Keys -> Nat] /\ \A k \in Keys : until[k] <= now + Lockout
  /\ checking \in [Threads -> Keys \cup {NoKey}]
  /\ KeysBounded

LEMMA SomeKeys ==
  ASSUME NEW S \in SUBSET Keys
  PROVE  /\ IsFiniteSet(S) /\ Cardinality(S) \in Nat
         /\ \A T \in SUBSET S : Cardinality(T) <= Cardinality(S)
         /\ \A k \in Keys : Cardinality(S \cup {k}) <= Cardinality(S) + 1
<1>1. IsFiniteSet(S)
  BY ThrottleConstants, FS_Subset
<1>2. Cardinality(S) \in Nat
  BY <1>1, FS_CardinalityType
<1>3. \A T \in SUBSET S : Cardinality(T) <= Cardinality(S)
  BY <1>1, FS_Subset
<1>4. ASSUME NEW k \in Keys PROVE Cardinality(S \cup {k}) <= Cardinality(S) + 1
  <2>1. Cardinality(S \cup {k}) = IF k \in S THEN Cardinality(S) ELSE Cardinality(S) + 1
    BY <1>1, FS_AddElement
  <2> QED
    BY <1>2, <2>1
<1> QED
  BY <1>1, <1>2, <1>3, <1>4

\* Every known key is in one of the two maps.
LEMMA KnownWithinSize ==
  ASSUME NEW f, NEW u
  PROVE  Cardinality(KnownKeys(f, u)) <= Size(f, u) /\ Size(f, u) \in Nat
<1> DEFINE A == {k \in Keys : f[k] # <<>>}  B == {k \in Keys : u[k] # 0}
<1>1. A \in SUBSET Keys /\ B \in SUBSET Keys /\ KnownKeys(f, u) = A \cup B
  BY DEF KnownKeys, Known
<1>2. A \cap B \in SUBSET Keys
  BY <1>1
<1>3. Size(f, u) = Cardinality(A) + Cardinality(B)
  BY DEF Size
<1> HIDE DEF A, B
<1>4. /\ IsFiniteSet(A) /\ IsFiniteSet(B) /\ Cardinality(A) \in Nat /\ Cardinality(B) \in Nat
      /\ Cardinality(A \cap B) \in Nat
  BY <1>1, <1>2, SomeKeys
<1>5. Cardinality(A \cup B) = Cardinality(A) + Cardinality(B) - Cardinality(A \cap B)
  BY <1>4, FS_Union
<1> QED
  BY <1>1, <1>3, <1>4, <1>5

\* A sweep drops no lockout that still runs and makes no key known.
LEMMA Sweep ==
  ASSUME ThrottleInv
  PROVE  /\ FailsNow = [k \in Keys |-> FailsNow[k]] /\ UntilNow \in [Keys -> Nat]
         /\ \A k \in Keys : /\ UntilNow[k] <= now + Lockout
                            /\ until[k] > now => UntilNow[k] = until[k]
         /\ KnownKeys(FailsNow, UntilNow) \subseteq KnownKeys(fails, until)
         /\ Cardinality(KnownKeys(FailsNow, UntilNow)) <= MaxKeys
<1>1. FailsNow = [k \in Keys |-> FailsNow[k]]
  BY DEF ThrottleInv, FailsNow, SweptFails
<1>2. /\ UntilNow \in [Keys -> Nat]
      /\ \A k \in Keys : UntilNow[k] = until[k] \/ (UntilNow[k] = 0 /\ until[k] <= now)
  BY DEF ThrottleInv, UntilNow, SweptUntil
<1>3. \A k \in Keys : FailsNow[k] = fails[k] \/ FailsNow[k] = <<>>
  BY DEF ThrottleInv, FailsNow, SweptFails
<1>4. \A k \in Keys : /\ UntilNow[k] <= now + Lockout
                      /\ until[k] > now => UntilNow[k] = until[k]
  BY <1>2, ThrottleConstants DEF ThrottleInv
<1>5. KnownKeys(FailsNow, UntilNow) \subseteq KnownKeys(fails, until)
  BY <1>2, <1>3 DEF KnownKeys, Known
<1>6. Cardinality(KnownKeys(FailsNow, UntilNow)) <= MaxKeys
  <2>1. KnownKeys(fails, until) \in SUBSET Keys
    BY DEF KnownKeys
  <2>2. Cardinality(KnownKeys(fails, until)) <= MaxKeys
    BY DEF ThrottleInv, KeysBounded, KnownKeys
  <2>3. KnownKeys(FailsNow, UntilNow) \in SUBSET Keys
    BY DEF KnownKeys
  <2> QED
    BY <1>5, <2>1, <2>2, <2>3, SomeKeys, ThrottleConstants
<1> QED
  BY <1>1, <1>2, <1>4, <1>5, <1>6

\* Maps that know no more keys keep the bound.
LEMMA BoundKept ==
  ASSUME ThrottleInv, fails' = [k \in Keys |-> fails'[k]], until' \in [Keys -> Nat],
         now' \in Nat, \A k \in Keys : until'[k] <= now' + Lockout,
         checking' \in [Threads -> Keys \cup {NoKey}],
         NEW S \in SUBSET Keys, Cardinality(S) <= MaxKeys, KnownKeys(fails', until') \subseteq S
  PROVE  ThrottleInv'
<1>1. KnownKeys(fails', until') \in SUBSET S
  OBVIOUS
<1>2. Cardinality(KnownKeys(fails', until')) <= Cardinality(S) /\ Cardinality(S) \in Nat
  BY <1>1, SomeKeys
<1>3. Cardinality(KnownKeys(fails', until')) \in Nat
  BY <1>1, SomeKeys
<1>4. KeysBounded'
  BY <1>2, <1>3, ThrottleConstants DEF KeysBounded, KnownKeys
<1> QED
  BY <1>4 DEF ThrottleInv

LEMMA AskKeeps ==
  ASSUME ThrottleInv, NEW t \in Threads, NEW k \in Keys, Ask(t, k)
  PROVE  ThrottleInv' /\ \A m \in Keys : until[m] > now => until'[m] >= until[m]
<1>1. fails' = FailsNow /\ now' = now
  BY DEF Ask
<1>2. until' = UntilNow \/ (until' = [UntilNow EXCEPT ![k] = 0] /\ ~(UntilNow[k] > now))
  BY DEF Ask
<1>3. checking' \in [Threads -> Keys \cup {NoKey}]
  BY DEF Ask, ThrottleInv
<1>4. /\ until' \in [Keys -> Nat]
      /\ \A m \in Keys : until'[m] <= now + Lockout /\ (until[m] > now => until'[m] >= until[m])
      /\ \A m \in Keys : until'[m] = UntilNow[m] \/ until'[m] = 0
  BY <1>2, Sweep, ThrottleConstants DEF ThrottleInv
<1>5. KnownKeys(fails', until') \subseteq KnownKeys(FailsNow, UntilNow)
  BY <1>1, <1>4 DEF KnownKeys, Known
<1>6. KnownKeys(FailsNow, UntilNow) \in SUBSET Keys
  BY DEF KnownKeys
<1>7. ThrottleInv'
  BY <1>1, <1>3, <1>4, <1>5, <1>6, Sweep, BoundKept DEF ThrottleInv
<1> QED
  BY <1>4, <1>7

LEMMA WrongKeeps ==
  ASSUME ThrottleInv, NEW t \in Threads, Wrong(t)
  PROVE  ThrottleInv' /\ \A m \in Keys : until[m] > now => until'[m] >= until[m]
<1> DEFINE k == checking[t]  S == KnownKeys(FailsNow, UntilNow)
<1>1. k \in Keys /\ now' = now /\ checking' \in [Threads -> Keys \cup {NoKey}]
  BY DEF Wrong, ThrottleInv
<1>2. S \in SUBSET Keys
  BY DEF KnownKeys
<1>3. \/ Uncounted(k) /\ fails' = FailsNow /\ until' = UntilNow
      \/ /\ ~Uncounted(k) /\ \E h : fails' = [FailsNow EXCEPT ![k] = h]
         /\ until' = UntilNow \/ until' = [UntilNow EXCEPT ![k] = now + Lockout]
  BY DEF Wrong, Lock
<1>4. /\ fails' = [m \in Keys |-> fails'[m]] /\ until' \in [Keys -> Nat]
      /\ \A m \in Keys : until'[m] <= now + Lockout /\ (until[m] > now => until'[m] >= until[m])
  BY <1>1, <1>3, Sweep, ThrottleConstants DEF ThrottleInv
<1>5. CASE Uncounted(k)
  <2>1. KnownKeys(fails', until') \subseteq S
    BY <1>3, <1>5
  <2> QED
    BY <1>1, <1>2, <1>4, <2>1, Sweep, BoundKept DEF ThrottleInv
<1>6. CASE ~Uncounted(k)
  <2>1. KnownKeys(fails', until') \subseteq S \cup {k}
    BY <1>1, <1>3, <1>6, Sweep DEF KnownKeys, Known
  <2>2. Cardinality(S) \in Nat /\ Cardinality(S \cup {k}) <= Cardinality(S) + 1
    BY <1>1, <1>2, SomeKeys
  <2>3. S \cup {k} \in SUBSET Keys /\ Cardinality(S \cup {k}) \in Nat
    BY <1>1, <1>2, SomeKeys
  <2>4. Cardinality(S \cup {k}) <= MaxKeys
    <3>1. CASE Known(FailsNow, UntilNow, k)
      <4>1. S \cup {k} = S
        BY <1>1, <3>1 DEF KnownKeys
      <4> QED
        BY <4>1, Sweep
    <3>2. CASE ~StillFull
      <4>1. Cardinality(S) <= Size(FailsNow, UntilNow) /\ Size(FailsNow, UntilNow) \in Nat
        BY KnownWithinSize
      <4>2. Size(FailsNow, UntilNow) < MaxKeys
        BY <3>2, <4>1, ThrottleConstants DEF StillFull
      <4> HIDE DEF S
      <4> QED
        BY <2>2, <2>3, <4>1, <4>2, ThrottleConstants
    <3> QED
      BY <1>6, <3>1, <3>2 DEF Uncounted
  <2> HIDE DEF S
  <2> QED
    BY <1>1, <1>4, <2>1, <2>3, <2>4, BoundKept DEF ThrottleInv
<1> QED
  BY <1>4, <1>5, <1>6

LEMMA RightKeeps ==
  ASSUME ThrottleInv, NEW t \in Threads, Right(t)
  PROVE  ThrottleInv' /\ until' = until
<1>1. /\ fails' = [fails EXCEPT ![checking[t]] = <<>>] /\ until' = until /\ now' = now
      /\ checking' \in [Threads -> Keys \cup {NoKey}]
  BY DEF Right, Pardon, ThrottleInv
<1>2. fails' = [k \in Keys |-> fails'[k]] /\ \A k \in Keys : fails'[k] = fails[k] \/ fails'[k] = <<>>
  BY <1>1 DEF ThrottleInv
<1>3. KnownKeys(fails', until') \subseteq KnownKeys(fails, until)
  BY <1>1, <1>2 DEF KnownKeys, Known
<1>4. KnownKeys(fails, until) \in SUBSET Keys /\ Cardinality(KnownKeys(fails, until)) <= MaxKeys
  BY DEF ThrottleInv, KeysBounded, KnownKeys
<1> QED
  BY <1>1, <1>2, <1>3, <1>4, BoundKept DEF ThrottleInv

LEMMA ThrottleStep ==
  ThrottleInv /\ [Next]_vars =>
    ThrottleInv' /\ \A k \in Keys : until[k] > now => until'[k] >= until[k]
<1> SUFFICES ASSUME ThrottleInv, [Next]_vars
             PROVE  ThrottleInv' /\ \A k \in Keys : until[k] > now => until'[k] >= until[k]
  OBVIOUS
<1>1. CASE TimePasses \/ UNCHANGED vars
  <2>1. UNCHANGED <<fails, until, checking>> /\ now' \in {now, now + 1}
    BY <1>1, Zenon DEF TimePasses, vars
  <2> QED
    BY <2>1, ThrottleConstants DEF ThrottleInv, KeysBounded, Known
<1>2. ASSUME NEW t \in Threads, Wrong(t) \/ Right(t)
      PROVE  ThrottleInv' /\ \A k \in Keys : until[k] > now => until'[k] >= until[k]
  BY <1>2, WrongKeeps, RightKeeps DEF ThrottleInv
<1> QED
  BY <1>1, <1>2, AskKeeps DEF Next

LEMMA ThrottleInit == Init => ThrottleInv
<1> SUFFICES ASSUME Init PROVE ThrottleInv
  OBVIOUS
<1>1. {k \in Keys : Known(fails, until, k)} = {}
  BY DEF Init, Known
<1>2. KeysBounded
  BY <1>1, FS_EmptySet, ThrottleConstants DEF KeysBounded
<1> QED
  BY <1>2, ThrottleConstants DEF Init, ThrottleInv

\* Never more than MAX_KEYS keys are held.
THEOREM MemoryBounded == Spec => []KeysBounded
<1>1. ThrottleInv => KeysBounded
  BY DEF ThrottleInv
<1> QED
  BY <1>1, ThrottleInit, ThrottleStep, PTL DEF Spec

\* A lockout lasts until its time.
THEOREM LockoutHolds == Spec => LockoutLasts
<1>1. ThrottleInv /\ [Next]_vars => [\A k \in Keys : until[k] > now => until'[k] >= until[k]]_vars
  BY ThrottleStep
<1> QED
  BY <1>1, ThrottleInit, ThrottleStep, PTL DEF Spec, LockoutLasts

-----------------------------------------------------------------------------
(* The policy.  What the throttle counts against a key and what it remembers *)
(* are lists pruned at different times; both are compared by how many of     *)
(* their entries lie after an instant.                                       *)

Sorted(s) == s \in Seq(Int) /\ \A i, j \in DOMAIN s : i <= j => s[i] <= s[j]

Older(s, d) == Cardinality({i \in DOMAIN s : s[i] <= d})
Later(s, d) == Len(s) - Older(s, d)

\* n entries of s lie up to d: the first ones.
Splits(s, d, n) == n \in 0..Len(s) /\ \A i \in DOMAIN s : s[i] <= d <=> i <= n

LEMMA Listed ==
  ASSUME NEW s, Sorted(s)
  PROVE  Len(s) \in Nat /\ DOMAIN s = 1..Len(s) /\ \A i \in DOMAIN s : s[i] \in Int
<1>1. Len(s) \in Nat /\ DOMAIN s = 1..Len(s) /\ s \in [1..Len(s) -> Int]
  BY LenProperties DEF Sorted
<1> QED
  BY <1>1

LEMMA Ups == \A n \in Nat : IsFiniteSet(1..n) /\ Cardinality(1..n) = n
<1> SUFFICES ASSUME NEW n \in Nat PROVE IsFiniteSet(1..n) /\ Cardinality(1..n) = n
  OBVIOUS
<1>1. IsFiniteSet(1..n) /\ Cardinality(1..n) = IF 1 > n THEN 0 ELSE n - 1 + 1
  BY FS_Interval
<1> QED
  BY <1>1

LEMMA OlderSplits ==
  ASSUME NEW s, Sorted(s), NEW d \in Int
  PROVE  Splits(s, d, Older(s, d))
<1>1. Len(s) \in Nat /\ DOMAIN s = 1..Len(s) /\ \A i \in DOMAIN s : s[i] \in Int
  BY Listed
<1>2. PICK old : old = {i \in DOMAIN s : s[i] <= d}
  OBVIOUS
<1>3. old \subseteq 1..Len(s) /\ IsFiniteSet(1..Len(s)) /\ Cardinality(1..Len(s)) = Len(s)
  <2>1. old \subseteq 1..Len(s)
    BY <1>1, <1>2
  <2> QED
    BY <1>1, <2>1, Ups
<1>4. IsFiniteSet(old) /\ Cardinality(old) \in Nat /\ Cardinality(old) <= Len(s)
  BY <1>3, FS_Subset, FS_CardinalityType
<1>5. ASSUME NEW i \in DOMAIN s PROVE s[i] <= d <=> i <= Cardinality(old)
  <2>1. ASSUME s[i] <= d PROVE i <= Cardinality(old)
    <3>1. 1..i \subseteq old
      <4> SUFFICES ASSUME NEW j \in 1..i PROVE j \in old
        OBVIOUS
      <4>1. j \in DOMAIN s /\ j <= i /\ i \in Int
        BY <1>1
      <4>2. s[j] <= s[i]
        BY <4>1 DEF Sorted
      <4>3. s[j] <= d
        BY <1>1, <2>1, <4>1, <4>2
      <4> QED
        BY <1>2, <4>1, <4>3
    <3>2. i \in Nat
      BY <1>1
    <3>3. Cardinality(1..i) = i
      BY <3>2, Ups
    <3> QED
      BY <1>4, <3>1, <3>3, FS_Subset
  <2>2. ASSUME ~(s[i] <= d) PROVE ~(i <= Cardinality(old))
    <3>1. old \in SUBSET (1..(i - 1))
      <4> SUFFICES ASSUME NEW j \in old PROVE j \in 1..(i - 1)
        OBVIOUS
      <4>1. j \in 1..Len(s) /\ s[j] <= d /\ j \in DOMAIN s
        BY <1>1, <1>2
      <4>2. ~(i <= j)
        BY <1>1, <2>2, <4>1 DEF Sorted
      <4> QED
        BY <1>1, <4>1, <4>2
    <3>2. IsFiniteSet(1..(i - 1)) /\ Cardinality(1..(i - 1)) = i - 1
      <4>1. i - 1 \in Nat
        BY <1>1
      <4> QED
        BY <4>1, Ups
    <3>3. Cardinality(old) <= Cardinality(1..(i - 1))
      BY <3>1, <3>2, FS_Subset
    <3> QED
      BY <1>1, <1>4, <3>2, <3>3
  <2> QED
    BY <2>1, <2>2
<1> QED
  BY <1>2, <1>4, <1>5, <1>1 DEF Splits, Older

LEMMA OlderIs ==
  ASSUME NEW s, Sorted(s), NEW d \in Int, NEW n, Splits(s, d, n)
  PROVE  Older(s, d) = n /\ Later(s, d) = Len(s) - n
<1>1. Len(s) \in Nat /\ DOMAIN s = 1..Len(s)
  BY Listed
<1>2. Splits(s, d, Older(s, d))
  BY OlderSplits
<1>3. Older(s, d) = n
  BY <1>1, <1>2 DEF Splits
<1> QED
  BY <1>3 DEF Later

LEMMA LaterIs ==
  ASSUME NEW s, Sorted(s), NEW d \in Int
  PROVE  /\ Later(s, d) \in 0..Len(s)
         /\ (\A i \in DOMAIN s : s[i] > d) => Later(s, d) = Len(s)
         /\ (\A i \in DOMAIN s : s[i] <= d) => Later(s, d) = 0
<1>1. Len(s) \in Nat /\ DOMAIN s = 1..Len(s) /\ \A i \in DOMAIN s : s[i] \in Int
  BY Listed
<1>2. Splits(s, d, Older(s, d))
  BY OlderSplits
<1>3. Later(s, d) \in 0..Len(s)
  BY <1>1, <1>2 DEF Splits, Later
<1>4. ASSUME \A i \in DOMAIN s : s[i] > d PROVE Later(s, d) = Len(s)
  <2>1. Splits(s, d, 0)
    BY <1>1, <1>4 DEF Splits
  <2> QED
    BY <1>1, <2>1, OlderIs
<1>5. ASSUME \A i \in DOMAIN s : s[i] <= d PROVE Later(s, d) = 0
  <2>1. Splits(s, d, Len(s))
    BY <1>1, <1>5 DEF Splits
  <2> QED
    BY <1>1, <2>1, OlderIs
<1> QED
  BY <1>3, <1>4, <1>5

\* Pruning up to c leaves what lies after any later instant.
LEMMA AfterIs ==
  ASSUME NEW s, Sorted(s), NEW c \in Int
  PROVE  /\ Sorted(After(s, c)) /\ Len(After(s, c)) = Later(s, c)
         /\ \A i \in DOMAIN After(s, c) :
              After(s, c)[i] > c /\ \E j \in DOMAIN s : After(s, c)[i] = s[j]
         /\ \A d \in Int : c <= d => Later(After(s, c), d) = Later(s, d)
<1>1. Len(s) \in Nat /\ DOMAIN s = 1..Len(s) /\ \A i \in DOMAIN s : s[i] \in Int
  BY Listed
<1>2. PICK n : n = Older(s, c)
  OBVIOUS
<1>3. Splits(s, c, n)
  BY <1>2, OlderSplits
<1>4. n \in Nat /\ n <= Len(s) /\ \A i \in DOMAIN s : s[i] <= c <=> i <= n
  BY <1>1, <1>3 DEF Splits
<1>5. PICK t : t = After(s, c)
  OBVIOUS
<1>6. t = SubSeq(s, n + 1, Len(s))
  BY <1>2, <1>5 DEF After, Older
<1>7. /\ t \in Seq(Int) /\ Len(t) = Len(s) - n
      /\ \A i \in 1..(Len(s) - n) : t[i] = s[n + i]
  <2>1. /\ Len(t) = IF n + 1 <= Len(s) THEN Len(s) - (n + 1) + 1 ELSE 0
        /\ \A i \in 1..(Len(s) - (n + 1) + 1) : t[i] = s[(n + 1) + i - 1]
    BY <1>1, <1>4, <1>6, SubSeqProperties DEF Sorted
  <2>2. t \in Seq(Int)
    BY <1>1, <1>4, <1>6, SubSeqProperties DEF Sorted
  <2> QED
    <3>1. Len(t) = Len(s) - n
      <4>1. CASE n + 1 <= Len(s)
        <5>1. Len(t) = Len(s) - (n + 1) + 1
          BY <2>1, <4>1
        <5> QED
          BY <1>1, <1>4, <5>1
      <4>2. CASE ~(n + 1 <= Len(s))
        <5>1. Len(t) = 0
          BY <2>1, <4>2
        <5>2. n = Len(s)
          <6>1. Len(s) \in Nat /\ n \in Nat /\ n <= Len(s)
            BY <1>1, <1>4
          <6> QED
            BY <4>2, <6>1
        <5> QED
          BY <1>1, <5>1, <5>2
      <4> QED
        BY <4>1, <4>2
    <3>2. Len(s) - (n + 1) + 1 = Len(s) - n
      BY <1>1, <1>4
    <3>3. ASSUME NEW i \in 1..(Len(s) - n) PROVE t[i] = s[n + i]
      <4>1. t[i] = s[(n + 1) + i - 1]
        BY <2>1, <3>2
      <4>2. (n + 1) + i - 1 = n + i
        BY <1>4
      <4> QED
        BY <4>1, <4>2
    <3> QED
      BY <2>2, <3>1, <3>3
<1>8. DOMAIN t = 1..(Len(s) - n) /\ \A i \in DOMAIN t : n + i \in DOMAIN s /\ t[i] = s[n + i]
  BY <1>1, <1>4, <1>7, LenProperties
<1>9. Sorted(t)
  <2> SUFFICES ASSUME NEW i \in DOMAIN t, NEW j \in DOMAIN t, i <= j PROVE t[i] <= t[j]
    BY <1>7 DEF Sorted
  <2>1. n + i \in DOMAIN s /\ n + j \in DOMAIN s /\ n + i <= n + j
    BY <1>1, <1>4, <1>8
  <2> QED
    BY <1>8, <2>1 DEF Sorted
<1>10. Len(t) = Later(s, c)
  BY <1>2, <1>7 DEF Later
<1>11. ASSUME NEW i \in DOMAIN t PROVE t[i] > c /\ \E j \in DOMAIN s : t[i] = s[j]
  <2>1. n + i \in DOMAIN s /\ t[i] = s[n + i] /\ i \in 1..(Len(s) - n)
    BY <1>8
  <2>2. ~(n + i <= n) /\ s[n + i] \in Int
    BY <1>1, <1>4, <2>1
  <2>3. ~(s[n + i] <= c)
    BY <1>4, <2>1, <2>2
  <2> QED
    BY <2>1, <2>2, <2>3
<1>12. ASSUME NEW d \in Int, c <= d PROVE Later(t, d) = Later(s, d)
  <2>1. PICK m : m = Older(s, d)
    OBVIOUS
  <2>2. Splits(s, d, m)
    BY <2>1, OlderSplits
  <2>3. m \in Nat /\ m <= Len(s) /\ \A i \in DOMAIN s : s[i] <= d <=> i <= m
    BY <1>1, <2>2 DEF Splits
  <2>4. n <= m
    <3>1. CASE n = 0
      BY <2>3, <3>1
    <3>2. CASE n # 0
      <4>1. n \in DOMAIN s /\ s[n] <= c
        BY <1>1, <1>4, <3>2
      <4>2. s[n] <= d
        BY <1>1, <1>12, <4>1
      <4> QED
        BY <2>3, <4>1, <4>2
    <3> QED
      BY <3>1, <3>2
  <2>5. Splits(t, d, m - n)
    <3>1. m - n \in 0..Len(t)
      BY <1>1, <1>4, <1>7, <2>3, <2>4
    <3>2. ASSUME NEW i \in DOMAIN t PROVE t[i] <= d <=> i <= m - n
      <4>1. n + i \in DOMAIN s /\ t[i] = s[n + i] /\ i \in Int
        BY <1>8
      <4>2. s[n + i] <= d <=> n + i <= m
        BY <2>3, <4>1
      <4> QED
        BY <1>4, <2>3, <4>1, <4>2
    <3> QED
      BY <3>1, <3>2 DEF Splits
  <2>6. Later(t, d) = Len(t) - (m - n) /\ Later(s, d) = Len(s) - m
    BY <1>9, <2>2, <2>5, OlderIs
  <2> QED
    BY <1>1, <1>4, <1>7, <2>3, <2>6
<1> QED
  BY <1>5, <1>9, <1>10, <1>11, <1>12

\* A new entry lies after the earlier instants.
LEMMA AppendIs ==
  ASSUME NEW s, Sorted(s), NEW x \in Int, \A i \in DOMAIN s : s[i] <= x
  PROVE  /\ Sorted(Append(s, x)) /\ Len(Append(s, x)) = Len(s) + 1
         /\ \A i \in DOMAIN Append(s, x) :
              Append(s, x)[i] = x \/ \E j \in DOMAIN s : Append(s, x)[i] = s[j]
         /\ \A d \in Int : d < x => Later(Append(s, x), d) = Later(s, d) + 1
         /\ \A d \in Int : x <= d => Later(Append(s, x), d) = 0
<1>1. Len(s) \in Nat /\ DOMAIN s = 1..Len(s) /\ \A i \in DOMAIN s : s[i] \in Int
  BY Listed
<1>2. PICK t : t = Append(s, x)
  OBVIOUS
<1>3. /\ t \in Seq(Int) /\ Len(t) = Len(s) + 1 /\ t[Len(s) + 1] = x
      /\ \A i \in 1..Len(s) : t[i] = s[i]
  BY <1>2, AppendProperties DEF Sorted
<1>4. DOMAIN t = 1..(Len(s) + 1) /\ \A i \in DOMAIN t : i \in DOMAIN s \/ i = Len(s) + 1
  BY <1>1, <1>3, LenProperties
<1>5. \A i \in DOMAIN t : t[i] \in Int /\ t[i] <= x
  BY <1>1, <1>3, <1>4
<1>6. Sorted(t)
  <2> SUFFICES ASSUME NEW i \in DOMAIN t, NEW j \in DOMAIN t, i <= j PROVE t[i] <= t[j]
    BY <1>3 DEF Sorted
  <2>1. CASE j = Len(s) + 1
    BY <1>3, <1>5, <2>1
  <2>2. CASE j # Len(s) + 1
    <3>1. i \in DOMAIN s /\ j \in DOMAIN s
      BY <1>1, <1>4, <2>2
    <3> QED
      BY <1>1, <1>3, <3>1 DEF Sorted
  <2> QED
    BY <2>1, <2>2
<1>7. \A i \in DOMAIN t : t[i] = x \/ \E j \in DOMAIN s : t[i] = s[j]
  BY <1>1, <1>3, <1>4
<1>8. ASSUME NEW d \in Int, d < x PROVE Later(t, d) = Later(s, d) + 1
  <2>1. PICK m : m = Older(s, d)
    OBVIOUS
  <2>2. Splits(s, d, m)
    BY <2>1, OlderSplits
  <2>3. Splits(t, d, m)
    <3>1. m \in 0..Len(s) /\ \A i \in DOMAIN s : s[i] <= d <=> i <= m
      BY <2>2 DEF Splits
    <3>2. ASSUME NEW i \in DOMAIN t PROVE t[i] <= d <=> i <= m
      <4>1. CASE i \in DOMAIN s
        BY <1>1, <1>3, <3>1, <4>1
      <4>2. CASE i = Len(s) + 1
        BY <1>1, <1>3, <1>8, <3>1, <4>2
      <4> QED
        BY <1>4, <4>1, <4>2
    <3>3. m \in 0..Len(t)
      BY <1>1, <1>3, <3>1
    <3> QED
      BY <3>2, <3>3 DEF Splits
  <2>4. Later(t, d) = Len(t) - m /\ Later(s, d) = Len(s) - m
    BY <1>6, <2>2, <2>3, OlderIs
  <2>5. m \in Int
    BY <1>1, <2>2 DEF Splits
  <2> QED
    BY <1>1, <1>3, <2>4, <2>5
<1>9. ASSUME NEW d \in Int, x <= d PROVE Later(t, d) = 0
  <2>1. \A i \in DOMAIN t : t[i] <= d
    BY <1>5, <1>9
  <2> QED
    BY <1>6, <2>1, LaterIs
<1> QED
  BY <1>2, <1>3, <1>6, <1>7, <1>8, <1>9

\* Entries of two lists of a key after an instant that a lockout, if there
\* was one, does not cover.
Matters(k, d) == d >= now - Shorter /\ until[k] <= d + Lockout
Told(k) == \A d \in Int : Matters(k, d) => Later(counted[k], d) <= Later(fails[k], d)

PolicyInv ==
  /\ ThrottleInv /\ now > 0
  /\ fails = [k \in Keys |-> fails[k]] /\ counted = [k \in Keys |-> counted[k]]
  /\ \A k \in Keys :
       /\ Sorted(fails[k]) /\ \A i \in DOMAIN fails[k] : fails[k][i] \in 1..now
       /\ Sorted(counted[k])
       /\ \A i \in DOMAIN counted[k] : counted[k][i] \in 1..now /\ counted[k][i] > now - Shorter
       /\ Len(fails[k]) < MaxFails
       /\ Told(k)

LEMMA Spans ==
  /\ Shorter \in Nat \ {0} /\ Shorter <= Window /\ Shorter <= Lockout
  /\ Window \in Nat \ {0} /\ Lockout \in Nat \ {0} /\ MaxFails \in Nat \ {0}
BY ThrottleConstants DEF Shorter

\* What a list must be, and how many of its entries lie after an instant.
Entries(s, t) == Sorted(s) /\ \A i \in DOMAIN s : s[i] \in 1..t

LEMMA Counts ==
  ASSUME NEW s, NEW t, Entries(s, t)
  PROVE  Len(s) \in Nat /\ \A d \in Int : Later(s, d) \in Nat /\ Later(s, d) <= Len(s)
<1>1. Sorted(s) /\ Len(s) \in Nat
  BY Listed DEF Entries
<1>2. \A d \in Int : Later(s, d) \in 0..Len(s)
  BY <1>1, LaterIs
<1> QED
  BY <1>1, <1>2

LEMMA Empty ==
  /\ \A t : Entries(<<>>, t)
  /\ Len(<<>>) = 0 /\ \A d \in Int : Later(<<>>, d) = 0
<1>1. Sorted(<<>>) /\ DOMAIN <<>> = {} /\ Len(<<>>) = 0
  BY DEF Sorted
<1>2. \A d \in Int : Later(<<>>, d) = 0
  BY <1>1, LaterIs
<1> QED
  BY <1>1, <1>2 DEF Entries

\* A sweep forgets no failure that still counts.
LEMMA SweepTells ==
  ASSUME PolicyInv, NEW k \in Keys
  PROVE  /\ Entries(FailsNow[k], now) /\ Len(FailsNow[k]) < MaxFails
         /\ \A d \in Int : d >= now - Shorter => Later(FailsNow[k], d) = Later(fails[k], d)
         /\ \A d \in Int : d >= now - Shorter => (UntilNow[k] <= d + Lockout <=> until[k] <= d + Lockout)
<1>1. Entries(fails[k], now) /\ Len(fails[k]) < MaxFails /\ now \in Nat /\ until[k] \in Nat
  BY DEF PolicyInv, ThrottleInv, Entries
<1>2. FailsNow[k] = fails[k] \/ (FailsNow[k] = <<>> /\ Since(fails[k], Window) = <<>>)
  BY DEF PolicyInv, FailsNow, SweptFails
<1>3. UntilNow[k] = until[k] \/ (UntilNow[k] = 0 /\ until[k] <= now)
  BY DEF PolicyInv, ThrottleInv, UntilNow, SweptUntil
<1>4. \A d \in Int : d >= now - Shorter => (UntilNow[k] <= d + Lockout <=> until[k] <= d + Lockout)
  BY <1>1, <1>3, Spans
<1>5. CASE FailsNow[k] = fails[k]
  BY <1>1, <1>4, <1>5
<1>6. CASE FailsNow[k] = <<>> /\ Since(fails[k], Window) = <<>>
  <2>1. Entries(FailsNow[k], now) /\ Len(FailsNow[k]) < MaxFails
    BY <1>6, Empty, Spans
  <2>2. Sorted(fails[k]) /\ now - Window \in Int
    BY <1>1, Spans DEF Entries
  <2>3. ASSUME NEW d \in Int, d >= now - Shorter PROVE Later(FailsNow[k], d) = Later(fails[k], d)
    <3>1. now - Window <= d
      BY <1>1, <2>3, Spans
    <3>2. Later(After(fails[k], now - Window), d) = Later(fails[k], d)
      BY <2>2, <3>1, AfterIs
    <3>3. After(fails[k], now - Window) = <<>>
      BY <1>6 DEF Since
    <3> QED
      BY <1>6, <3>2, <3>3
  <2> QED
    BY <1>4, <2>1, <2>3
<1> QED
  BY <1>2, <1>5, <1>6

\* One key's part of PolicyInv.
KeyFits(k) ==
  /\ Entries(fails[k], now) /\ Entries(counted[k], now)
  /\ \A i \in DOMAIN counted[k] : counted[k][i] > now - Shorter
  /\ Len(fails[k]) < MaxFails
  /\ Told(k)

LEMMA AskTells ==
  ASSUME PolicyInv, NEW t \in Threads, NEW k \in Keys, Ask(t, k), NEW m \in Keys
  PROVE  KeyFits(m)'
<1>1. fails' = FailsNow /\ now' = now /\ counted' = counted
  BY DEF Ask
<1>2. \/ until'[m] = UntilNow[m]
      \/ until'[m] = 0 /\ UntilNow[m] <= now
  <2>1. UntilNow \in [Keys -> Nat] /\ now \in Nat
    BY Sweep DEF PolicyInv, ThrottleInv
  <2>2. until' = UntilNow \/ (until' = [UntilNow EXCEPT ![k] = 0] /\ ~(UntilNow[k] > now))
    BY DEF Ask
  <2> QED
    BY <2>1, <2>2
<1>3. KeyFits(m) /\ now \in Nat /\ until[m] \in Nat /\ UntilNow[m] \in Nat
  BY Sweep DEF PolicyInv, ThrottleInv, KeyFits, Entries
<1>4. \A d \in Int : d >= now - Shorter => (until'[m] <= d + Lockout <=> until[m] <= d + Lockout)
  <2> SUFFICES ASSUME NEW d \in Int, d >= now - Shorter
               PROVE  until'[m] <= d + Lockout <=> until[m] <= d + Lockout
    OBVIOUS
  <2>1. UntilNow[m] <= d + Lockout <=> until[m] <= d + Lockout
    BY SweepTells
  <2>2. now <= d + Lockout /\ 0 <= d + Lockout
    BY <1>3, Spans
  <2> QED
    <3>1. CASE until'[m] = UntilNow[m]
      BY <2>1, <3>1
    <3>2. CASE until'[m] = 0 /\ UntilNow[m] <= now
      BY <1>3, <2>1, <2>2, <3>2, Spans
    <3> QED
      BY <1>2, <3>1, <3>2
<1>5. Told(m)'
  <2> SUFFICES ASSUME NEW d \in Int, d >= now - Shorter, until'[m] <= d + Lockout
               PROVE  Later(counted[m], d) <= Later(FailsNow[m], d)
    BY <1>1 DEF Told, Matters, Later, Older
  <2>1. Later(counted[m], d) <= Later(fails[m], d)
    BY <1>3, <1>4 DEF KeyFits, Told, Matters
  <2> QED
    BY <2>1, SweepTells
<1>6. Entries(fails'[m], now') /\ Len(fails'[m]) < MaxFails
  BY <1>1, SweepTells
<1> QED
  BY <1>1, <1>3, <1>5, <1>6 DEF KeyFits

LEMMA RightTells ==
  ASSUME PolicyInv, NEW t \in Threads, Right(t), NEW m \in Keys
  PROVE  KeyFits(m)'
<1>1. /\ fails' = [fails EXCEPT ![checking[t]] = <<>>] /\ until' = until /\ now' = now
      /\ counted' = [counted EXCEPT ![checking[t]] = <<>>]
  BY DEF Right, Pardon
<1>2. KeyFits(m) /\ now \in Nat
  BY DEF PolicyInv, ThrottleInv, KeyFits, Entries
<1>3. CASE checking[t] = m
  <2>1. fails'[m] = <<>> /\ counted'[m] = <<>>
    BY <1>1, <1>3 DEF PolicyInv
  <2>2. Told(m)'
    BY <2>1, Empty DEF Told, Later, Older
  <2> QED
    BY <1>1, <2>1, <2>2, Empty, Spans DEF KeyFits, Entries
<1>4. CASE checking[t] # m
  <2>1. fails'[m] = fails[m] /\ counted'[m] = counted[m]
    BY <1>1, <1>4 DEF PolicyInv
  <2> QED
    BY <1>1, <1>2, <2>1 DEF KeyFits, Entries, Told, Matters
<1> QED
  BY <1>3, <1>4

\* A list with the present failure added.
LEMMA AddNow ==
  ASSUME now \in Nat, now > 0, NEW s, Entries(s, now)
  PROVE  /\ Entries(Append(s, now), now)
         /\ \A d \in Int : d < now => Later(Append(s, now), d) = Later(s, d) + 1
         /\ \A d \in Int : now <= d => Later(Append(s, now), d) = 0
         /\ \A i \in DOMAIN Append(s, now) :
              Append(s, now)[i] = now \/ \E j \in DOMAIN s : Append(s, now)[i] = s[j]
<1>1. Sorted(s) /\ \A i \in DOMAIN s : s[i] <= now
  BY DEF Entries
<1> QED
  BY <1>1, AppendIs DEF Entries

LEMMA HitsAre ==
  ASSUME PolicyInv, NEW k \in Keys
  PROVE  /\ Entries(Hits(k), now)
         /\ \A d \in Int : d >= now - Shorter /\ d < now => Later(Hits(k), d) = Later(fails[k], d) + 1
<1>1. now \in Nat /\ now > 0 /\ now - Window \in Int
  BY Spans DEF PolicyInv, ThrottleInv
<1>2. PICK f : f = FailsNow[k]
  OBVIOUS
<1>3. PICK s : s = After(f, now - Window)
  OBVIOUS
<1>4. Entries(f, now) /\ \A d \in Int : d >= now - Shorter => Later(f, d) = Later(fails[k], d)
  BY <1>2, SweepTells
<1>5. /\ Entries(s, now)
      /\ \A d \in Int : now - Window <= d => Later(s, d) = Later(f, d)
  <2>1. Sorted(f) /\ \A i \in DOMAIN f : f[i] \in 1..now
    BY <1>4 DEF Entries
  <2>2. PICK c \in Int : c = now - Window
    BY <1>1
  <2>3. /\ Sorted(After(f, c)) /\ Len(After(f, c)) = Later(f, c)
        /\ \A i \in DOMAIN After(f, c) :
             After(f, c)[i] > c /\ \E j \in DOMAIN f : After(f, c)[i] = f[j]
        /\ \A d \in Int : c <= d => Later(After(f, c), d) = Later(f, d)
    BY <2>1, AfterIs
  <2>4. s = After(f, c)
    BY <1>3, <2>2
  <2>5. \A i \in DOMAIN s : s[i] \in 1..now
    BY <2>1, <2>3, <2>4
  <2> QED
    BY <2>2, <2>3, <2>4, <2>5 DEF Entries
<1>6. Hits(k) = Append(s, now)
  BY <1>2, <1>3 DEF Hits, Since
<1>7. \A d \in Int : d >= now - Shorter => now - Window <= d
  BY <1>1, Spans
<1>8. \A d \in Int : d >= now - Shorter => Later(s, d) = Later(fails[k], d)
  BY <1>4, <1>5, <1>7
<1> QED
  BY <1>1, <1>5, <1>6, <1>8, AddNow

LEMMA WrongTells ==
  ASSUME PolicyInv, NEW t \in Threads, Wrong(t), NEW m \in Keys
  PROVE  KeyFits(m)'
<1> DEFINE k == checking[t]
<1>1. k \in Keys /\ now' = now /\ now \in Nat /\ now > 0
  BY DEF Wrong, PolicyInv, ThrottleInv
<1>2. \/ fails' = FailsNow /\ until' = UntilNow /\ counted' = counted
      \/ /\ counted' = [counted EXCEPT ![k] = Append(counted[k], now)]
         /\ \/ /\ fails' = [FailsNow EXCEPT ![k] = Hits(k)] /\ until' = UntilNow
               /\ ~(Len(Hits(k)) >= MaxFails)
            \/ /\ until' = [UntilNow EXCEPT ![k] = now + Lockout]
               /\ fails' = [FailsNow EXCEPT ![k] = <<>>]
  BY DEF Wrong, Lock
<1>3. KeyFits(m) /\ until[m] \in Nat
  BY DEF PolicyInv, ThrottleInv, KeyFits, Entries
<1>4. FailsNow = [x \in Keys |-> FailsNow[x]] /\ UntilNow \in [Keys -> Nat]
  BY Sweep DEF PolicyInv
<1> HIDE DEF k
\* The key has been swept at most.
<1>5. CASE fails'[m] = FailsNow[m] /\ until'[m] = UntilNow[m] /\ counted'[m] = counted[m]
  <2>1. Told(m)'
    <3> SUFFICES ASSUME NEW d \in Int, d >= now - Shorter, UntilNow[m] <= d + Lockout
                 PROVE  Later(counted[m], d) <= Later(FailsNow[m], d)
      BY <1>1, <1>5 DEF Told, Matters, Later, Older
    <3>1. Later(counted[m], d) <= Later(fails[m], d)
      BY <1>3, SweepTells DEF KeyFits, Told, Matters
    <3> QED
      BY <3>1, SweepTells
  <2> QED
    BY <1>1, <1>3, <1>5, <2>1, SweepTells DEF KeyFits, Entries
\* A failure is recorded.
<1>6. CASE /\ m = k /\ fails'[m] = Hits(m) /\ until'[m] = UntilNow[m]
           /\ counted'[m] = Append(counted[m], now) /\ ~(Len(Hits(m)) >= MaxFails)
  <2>1. Entries(Hits(m), now) /\ Entries(counted[m], now) /\ Entries(Append(counted[m], now), now)
    BY <1>1, <1>3, HitsAre, AddNow DEF KeyFits
  <2>2. Told(m)'
    <3> SUFFICES ASSUME NEW d \in Int, d >= now - Shorter, UntilNow[m] <= d + Lockout
                 PROVE  Later(Append(counted[m], now), d) <= Later(Hits(m), d)
      BY <1>1, <1>6 DEF Told, Matters, Later, Older
    <3>1. Later(counted[m], d) <= Later(fails[m], d)
      BY <1>3, SweepTells DEF KeyFits, Told, Matters
    <3>2. CASE d < now
      <4>1. Later(Append(counted[m], now), d) = Later(counted[m], d) + 1 /\ Later(Hits(m), d) = Later(fails[m], d) + 1
        BY <1>1, <2>1, <3>2, AddNow, HitsAre
      <4>2. Later(counted[m], d) \in Int /\ Later(fails[m], d) \in Int
        BY <1>3, Counts DEF KeyFits
      <4> QED
        BY <3>1, <4>1, <4>2
    <3>3. CASE now <= d
      <4>1. Later(Append(counted[m], now), d) = 0 /\ Later(Hits(m), d) \in Nat
        BY <1>1, <2>1, <3>3, AddNow, Counts
      <4> QED
        BY <4>1
    <3> QED
      BY <1>1, <3>2, <3>3
  <2>3. \A i \in DOMAIN counted'[m] : counted'[m][i] > now - Shorter
    BY <1>1, <1>3, <1>6, AddNow, Spans DEF KeyFits
  <2>4. Len(Hits(m)) < MaxFails
    BY <1>6, <2>1, Counts, Spans
  <2> QED
    BY <1>1, <1>6, <2>1, <2>2, <2>3, <2>4 DEF KeyFits
\* The key is locked out.
<1>7. CASE /\ m = k /\ fails'[m] = <<>> /\ until'[m] = now + Lockout
           /\ counted'[m] = Append(counted[m], now)
  <2>1. Entries(counted[m], now) /\ Entries(Append(counted[m], now), now)
    BY <1>1, <1>3, AddNow DEF KeyFits
  <2>2. Told(m)'
    <3> SUFFICES ASSUME NEW d \in Int, now + Lockout <= d + Lockout
                 PROVE  Later(Append(counted[m], now), d) <= Later(<<>>, d)
      BY <1>1, <1>7 DEF Told, Matters, Later, Older
    <3>1. now <= d
      BY <1>1, Spans
    <3> QED
      BY <1>1, <2>1, <3>1, AddNow, Empty
  <2>3. \A i \in DOMAIN counted'[m] : counted'[m][i] > now - Shorter
    BY <1>1, <1>3, <1>7, AddNow, Spans DEF KeyFits
  <2> QED
    BY <1>1, <1>7, <2>1, <2>2, <2>3, Empty, Spans DEF KeyFits
<1> QED
  BY <1>1, <1>2, <1>4, <1>5, <1>6, <1>7 DEF PolicyInv

\* What has grown too old to count is dropped from the history alone.
LEMMA TimeTells ==
  ASSUME PolicyInv, TimePasses, NEW m \in Keys
  PROVE  KeyFits(m)'
<1>1. /\ now' = now + 1 /\ now \in Nat /\ fails' = fails /\ until' = until
      /\ counted'[m] = After(counted[m], now' - Shorter)
  BY DEF TimePasses, PolicyInv, ThrottleInv
<1>2. KeyFits(m)
  BY DEF PolicyInv, KeyFits, Entries
<1>3. PICK c \in Int : c = now' - Shorter
  BY <1>1, Spans
<1>4. /\ Sorted(counted'[m])
      /\ \A i \in DOMAIN counted'[m] :
           counted'[m][i] > c /\ \E j \in DOMAIN counted[m] : counted'[m][i] = counted[m][j]
      /\ \A d \in Int : c <= d => Later(After(counted[m], c), d) = Later(counted[m], d)
  <2>1. Sorted(counted[m])
    BY <1>2 DEF KeyFits, Entries
  <2>2. counted'[m] = After(counted[m], c)
    BY <1>1, <1>3
  <2>3. /\ Sorted(After(counted[m], c)) /\ Len(After(counted[m], c)) = Later(counted[m], c)
        /\ \A i \in DOMAIN After(counted[m], c) :
             After(counted[m], c)[i] > c /\ \E j \in DOMAIN counted[m] : After(counted[m], c)[i] = counted[m][j]
        /\ \A d \in Int : c <= d => Later(After(counted[m], c), d) = Later(counted[m], d)
    BY <2>1, AfterIs
  <2> QED
    BY <2>2, <2>3
<1>5. Entries(fails'[m], now') /\ Entries(counted'[m], now')
  BY <1>1, <1>2, <1>4 DEF KeyFits, Entries
<1>6. Told(m)'
  <2> SUFFICES ASSUME NEW d \in Int, d >= now' - Shorter, until[m] <= d + Lockout
               PROVE  Later(After(counted[m], c), d) <= Later(fails[m], d)
    BY <1>1, <1>3 DEF Told, Matters, Later, Older
  <2>1. c <= d /\ d >= now - Shorter
    BY <1>1, <1>3, Spans
  <2>2. Later(counted[m], d) <= Later(fails[m], d)
    BY <1>2, <2>1 DEF KeyFits, Told, Matters
  <2> QED
    BY <1>4, <2>1, <2>2
<1> QED
  BY <1>1, <1>2, <1>3, <1>4, <1>5, <1>6 DEF KeyFits

LEMMA PolicyStep == PolicyInv /\ [Next]_vars => PolicyInv'
<1> SUFFICES ASSUME PolicyInv, [Next]_vars PROVE PolicyInv'
  OBVIOUS
<1>1. ThrottleInv'
  BY ThrottleStep DEF PolicyInv
<1>2. fails' = [k \in Keys |-> fails'[k]]
  BY <1>1 DEF ThrottleInv
<1>3. counted' = [k \in Keys |-> counted'[k]] /\ now' > 0
  <2>1. CASE TimePasses
    BY <2>1 DEF TimePasses, PolicyInv, ThrottleInv
  <2>2. ASSUME NEW t \in Threads, Wrong(t) PROVE counted' = [k \in Keys |-> counted'[k]] /\ now' > 0
    BY <2>2 DEF Wrong, PolicyInv
  <2>3. ASSUME NEW t \in Threads, Right(t) PROVE counted' = [k \in Keys |-> counted'[k]] /\ now' > 0
    BY <2>3 DEF Right, PolicyInv
  <2>4. ASSUME NEW t \in Threads, NEW k \in Keys, Ask(t, k)
        PROVE  counted' = [x \in Keys |-> counted'[x]] /\ now' > 0
    BY <2>4 DEF Ask, PolicyInv
  <2>5. CASE UNCHANGED vars
    BY <2>5 DEF vars, PolicyInv
  <2> QED
    BY <2>1, <2>2, <2>3, <2>4, <2>5 DEF Next
<1>4. ASSUME NEW m \in Keys PROVE KeyFits(m)'
  <2>1. CASE UNCHANGED vars
    <3>1. KeyFits(m)
      BY DEF PolicyInv, KeyFits, Entries
    <3> QED
      BY <2>1, <3>1 DEF vars, KeyFits, Entries, Told, Matters
  <2> QED
    BY <2>1, AskTells, RightTells, WrongTells, TimeTells DEF Next
<1> QED
  BY <1>1, <1>2, <1>3, <1>4 DEF PolicyInv, KeyFits, Entries

LEMMA PolicyStart == Init => PolicyInv
<1> SUFFICES ASSUME Init PROVE PolicyInv
  OBVIOUS
<1>1. ThrottleInv
  BY ThrottleInit
<1>2. /\ fails = [k \in Keys |-> fails[k]] /\ counted = [k \in Keys |-> counted[k]] /\ now > 0
      /\ \A k \in Keys : fails[k] = <<>> /\ counted[k] = <<>>
  BY DEF Init
<1>3. ASSUME NEW k \in Keys PROVE KeyFits(k)
  <2>1. Told(k)
    BY <1>2, Empty DEF Told
  <2> QED
    BY <1>2, <2>1, Empty, Spans DEF KeyFits
<1> QED
  BY <1>1, <1>2, <1>3 DEF PolicyInv, KeyFits, Entries

LEMMA PolicyKept == Spec => []PolicyInv
<1>1. Init => PolicyInv
  BY PolicyStart
<1>2. PolicyInv /\ [Next]_vars => PolicyInv'
  BY PolicyStep
<1> QED
  BY <1>1, <1>2, PTL DEF Spec

\* Types; and no list of failures reaches max_fails: the key would have been
\* locked out and the list dropped.
THEOREM ThrottleTypes == Spec => []ThrottleTypeOK
<1>1. PolicyInv => ThrottleTypeOK
  <2> SUFFICES ASSUME PolicyInv PROVE ThrottleTypeOK
    OBVIOUS
  <2>1. /\ now \in Nat /\ checking \in [Threads -> Keys \cup {NoKey}] /\ until \in [Keys -> Nat]
        /\ \A k \in Keys : until[k] <= now + Lockout
    BY DEF PolicyInv, ThrottleInv
  <2>2. ASSUME NEW s, Entries(s, now) PROVE s \in Seq(1..now) /\ s \in Seq(Nat)
    <3>1. s \in Seq(Int) /\ Len(s) \in Nat /\ DOMAIN s = 1..Len(s) /\ \A i \in 1..Len(s) : s[i] \in 1..now
      BY <2>2, Listed DEF Entries, Sorted
    <3>2. s = [i \in 1..Len(s) |-> s[i]]
      BY <3>1, LenProperties
    <3>3. s \in [1..Len(s) -> 1..now] /\ s \in [1..Len(s) -> Nat]
      BY <2>1, <3>1, <3>2
    <3>4. \A S : s \in [1..Len(s) -> S] => s \in Seq(S)
      BY <3>1, SeqDef
    <3> QED
      BY <3>3, <3>4
  <2>3. \A k \in Keys : Entries(fails[k], now) /\ Entries(counted[k], now) /\ Len(fails[k]) < MaxFails
    BY DEF PolicyInv, Entries
  <2>4. fails \in [Keys -> Seq(1..now)] /\ counted \in [Keys -> Seq(Nat)]
    BY <2>2, <2>3 DEF PolicyInv
  <2>5. until \in [Keys -> 0..(now + Lockout)]
    BY <2>1, Spans
  <2> QED
    BY <2>1, <2>3, <2>4, <2>5 DEF ThrottleTypeOK
<1> QED
  BY <1>1, PolicyKept, PTL

\* Few enough failures count against a key that is not locked.
LEMMA UnlockedFew ==
  ASSUME PolicyInv, NEW k \in Keys, ~(UntilNow[k] > now)
  PROVE  Len(counted[k]) < MaxFails
<1>1. now \in Nat /\ UntilNow[k] \in Nat
  BY Sweep DEF PolicyInv, ThrottleInv
<1>2. PICK d \in Int : d = now - Shorter
  BY <1>1, Spans
<1>3. d >= now - Shorter /\ UntilNow[k] <= d + Lockout
  BY <1>1, <1>2, Spans
<1>4. UntilNow[k] <= d + Lockout <=> until[k] <= d + Lockout
  BY <1>3, SweepTells
<1>5. Later(counted[k], d) <= Later(fails[k], d)
  BY <1>3, <1>4 DEF PolicyInv, Told, Matters
<1>6. Entries(fails[k], now) /\ Entries(counted[k], now)
  BY DEF PolicyInv, Entries
<1>7. Later(counted[k], d) = Len(counted[k])
  <2>1. Sorted(counted[k]) /\ \A i \in DOMAIN counted[k] : counted[k][i] > d
    BY <1>2 DEF PolicyInv
  <2> QED
    BY <2>1, LaterIs
<1>8. Later(fails[k], d) <= Len(fails[k]) /\ Later(fails[k], d) \in Nat /\ Len(fails[k]) \in Nat
  BY <1>6, Counts
<1>9. Len(fails[k]) < MaxFails /\ Len(counted[k]) \in Nat
  BY <1>6, Counts DEF PolicyInv
<1> QED
  BY <1>5, <1>7, <1>8, <1>9, Spans

\* The policy: however the threads' questions and answers interleave, and
\* whatever a sweep or a success dropped, a password is looked at only while
\* fewer than max_fails failures of the key count.
THEOREM PolicyHolds == Spec => WithinPolicy
<1>1. ASSUME PolicyInv, NEW t \in Threads, checking[t] = NoKey, checking'[t] # NoKey, [Next]_vars
      PROVE  Len(counted[checking'[t]]) < MaxFails
  <2>0. checking \in [Threads -> Keys \cup {NoKey}] /\ now \in Nat
    BY <1>1 DEF PolicyInv, ThrottleInv
  <2>1. PICK k \in Keys : Ask(t, k)
    <3>1. \A v \in Threads : Wrong(v) \/ Right(v) => checking'[t] = NoKey
      BY <1>1, <2>0 DEF Wrong, Right
    <3>2. TimePasses \/ UNCHANGED vars => checking' = checking
      BY DEF TimePasses, vars
    <3>3. \A v \in Threads, k \in Keys : Ask(v, k) /\ v # t => checking'[t] = checking[t]
      BY <2>0 DEF Ask
    <3> QED
      BY <1>1, <3>1, <3>2, <3>3 DEF Next
  <2>2. checking'[t] = k /\ ~(UntilNow[k] > now)
    BY <1>1, <2>0, <2>1 DEF Ask
  <2> QED
    BY <1>1, <2>2, UnlockedFew
<1>2. PolicyInv /\ [Next]_vars =>
        [\A t \in Threads : checking[t] = NoKey /\ checking'[t] # NoKey
           => Len(counted[checking'[t]]) < MaxFails]_vars
  BY <1>1
<1> QED
  BY <1>2, PolicyKept, PTL DEF Spec, WithinPolicy
=============================================================================
