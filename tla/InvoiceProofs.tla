---------------------------- MODULE InvoiceProofs ----------------------------
(***************************************************************************)
(* What the statements say of every second, for any ledger, price book,    *)
(* reservation, calendar and choice of windows.                            *)
(*                                                                         *)
(* A second is followed down: to the one interval of its uid that holds it *)
(* (IntervalsApart, from the order in which the ledger grows), to the one  *)
(* piece of the interval (PieceAt) and the one segment of the piece        *)
(* (SegmentAt).  A statement writes lines inside its window only, so those *)
(* of the earlier windows are never touched again.                         *)
(*                                                                         *)
(* A month reserved whole is cut up by the node's lines, and each line by  *)
(* its days: prices in proportion to the length add up to that of the      *)
(* whole (PartedSum).  The induction over what is summed is written out,   *)
(* since the library's induction theorems take an operator.                *)
(***************************************************************************)
EXTENDS Invoice, FiniteSetTheorems, SequenceTheorems, WellFoundedInduction, TLAPS

-----------------------------------------------------------------------------
(* Bounded sets of numbers.                                                 *)

\* A set of numbers up to n has a greatest: the ranges above its members are
\* finite, and inclusion is well founded on those.
LEMMA Greatest ==
  ASSUME NEW n \in Nat, NEW S \in SUBSET (0..n), S # {}
  PROVE  \E m \in S : \A k \in S : k <= m
<1> DEFINE T == {(k + 1)..n : k \in S}
<1>1. T \subseteq FiniteSubsetsOf(Nat)
  <2> SUFFICES ASSUME NEW k \in S PROVE (k + 1)..n \in FiniteSubsetsOf(Nat)
    OBVIOUS
  <2>1. IsFiniteSet((k + 1)..n)
    BY FS_Interval
  <2> QED
    BY <2>1 DEF FiniteSubsetsOf
<1>2. PICK x \in T : \A y \in T : <<y, x>> \notin StrictSubsetOrdering(Nat)
  <2>1. T # {}
    OBVIOUS
  <2> HIDE DEF T
  <2> QED
    BY <1>1, <2>1, FS_StrictSubsetOrderingWellFounded, WFMin
<1>3. PICK m \in S : x = (m + 1)..n
  OBVIOUS
<1>4. ASSUME NEW k \in S, ~(k <= m) PROVE FALSE
  <2>1. (k + 1)..n \in SUBSET Nat /\ (m + 1)..n \in SUBSET Nat /\ (k + 1)..n \subseteq (m + 1)..n
    BY <1>4
  <2>2. k \in (m + 1)..n /\ k \notin (k + 1)..n
    BY <1>4
  <2>3. <<(k + 1)..n, (m + 1)..n>> \in StrictSubsetOrdering(Nat)
    BY <2>1, <2>2 DEF StrictSubsetOrdering
  <2> QED
    BY <1>2, <1>3, <2>3
<1> QED
  BY <1>4

LEMMA Smallest ==
  ASSUME NEW n \in Nat, NEW S \in SUBSET (0..n), S # {}
  PROVE  \E m \in S : \A k \in S : m <= k
<1> DEFINE T == {n - k : k \in S}
<1>1. T \in SUBSET (0..n) /\ T # {}
  OBVIOUS
<1>2. PICK x \in T : \A y \in T : y <= x
  <2> HIDE DEF T
  <2> QED
    BY <1>1, Greatest
<1>3. PICK m \in S : x = n - m
  OBVIOUS
<1>4. ASSUME NEW k \in S PROVE m <= k
  <2>1. n - k \in T /\ k \in 0..n /\ m \in 0..n
    OBVIOUS
  <2>2. n - k <= n - m
    BY <1>2, <1>3, <2>1
  <2> QED
    BY <2>1, <2>2
<1> QED
  BY <1>4

\* Max, of FiniteSetsExt.
LEMMA MaxIs ==
  ASSUME NEW n \in Nat, NEW S \in SUBSET (0..n), S # {}
  PROVE  Max(S) \in S /\ \A k \in S : k <= Max(S)
<1>1. PICK m \in S : \A k \in S : k <= m
  BY Greatest
<1>2. \A k \in S : m >= k
  BY <1>1
<1>3. Max(S) \in S /\ \A k \in S : Max(S) >= k
  BY <1>1, <1>2 DEF Max
<1> QED
  BY <1>3

-----------------------------------------------------------------------------
(* Sums.  Induction over a finite set is well-founded inclusion, as above.  *)

\* g adds f up over every part of S.
Adds(f, S, g) ==
  g = [s \in SUBSET S |-> IF s = {} THEN 0 ELSE LET x == CHOOSE e \in s : TRUE IN f[x] + g[s \ {x}]]

\* A property of finite sets that passes to a set from its proper parts.
LEMMA SmallestPart ==
  ASSUME NEW S, IsFiniteSet(S), NEW B \in SUBSET SUBSET S, B # {}
  PROVE  \E T \in B : \A R \in B : R \subseteq T => R = T
<1>1. B \subseteq FiniteSubsetsOf(S)
  BY FS_Subset DEF FiniteSubsetsOf
<1>2. PICK T \in B : \A R \in B : <<R, T>> \notin StrictSubsetOrdering(S)
  BY <1>1, FS_StrictSubsetOrderingWellFounded, WFMin
<1>3. ASSUME NEW R \in B, R \subseteq T, R # T PROVE FALSE
  BY <1>2, <1>3 DEF StrictSubsetOrdering
<1> QED
  BY <1>3

LEMMA AddsAlike ==
  ASSUME NEW f, NEW S, IsFiniteSet(S), NEW P \in SUBSET S, NEW Q \in SUBSET S,
         NEW g, Adds(f, P, g), NEW h, Adds(f, Q, h),
         NEW T \in SUBSET (P \cap Q)
  PROVE  g[T] = h[T]
<1> DEFINE B == {R \in SUBSET (P \cap Q) : g[R] # h[R]}
<1>1. SUFFICES ASSUME B # {} PROVE FALSE
  OBVIOUS
<1>2. B \in SUBSET SUBSET S
  OBVIOUS
<1>3. PICK R \in B : \A X \in B : X \subseteq R => X = R
  <2> HIDE DEF B
  <2> QED
    BY <1>1, <1>2, SmallestPart
<1>4. R # {}
  BY DEF Adds
<1>5. PICK x : x = CHOOSE e \in R : TRUE
  OBVIOUS
<1>6. x \in R /\ R \ {x} \in SUBSET (P \cap Q) /\ R \ {x} # R
  BY <1>4, <1>5
<1>7. g[R \ {x}] = h[R \ {x}]
  BY <1>3, <1>6
<1>8. g[R] = f[x] + g[R \ {x}]
  BY <1>4, <1>5 DEF Adds
<1>9. h[R] = f[x] + h[R \ {x}]
  BY <1>4, <1>5 DEF Adds
<1> QED
  BY <1>7, <1>8, <1>9

LEMMA AddsExists ==
  ASSUME NEW f, NEW S, IsFiniteSet(S)
  PROVE  \E g : Adds(f, S, g)
<1> DEFINE B == {T \in SUBSET S : ~ \E g : Adds(f, T, g)}
<1>1. SUFFICES ASSUME B # {} PROVE FALSE
  OBVIOUS
<1>2. PICK T \in B : \A X \in B : X \subseteq T => X = T
  <2>1. B \in SUBSET SUBSET S
    OBVIOUS
  <2> HIDE DEF B
  <2> QED
    BY <1>1, <2>1, SmallestPart
<1> DEFINE sum(R) == CHOOSE h : Adds(f, R, h)
           step(s) == LET x == CHOOSE e \in s : TRUE IN f[x] + sum(s \ {x})[s \ {x}]
           g == [s \in SUBSET T |-> IF s = {} THEN 0 ELSE step(s)]
<1>3. ASSUME NEW R \in SUBSET T, R # T PROVE Adds(f, R, sum(R))
  <2>1. \E h : Adds(f, R, h)
    BY <1>2, <1>3
  <2> QED
    BY <2>1
<1>4. ASSUME NEW s \in SUBSET T, s # {}
      PROVE  LET x == CHOOSE e \in s : TRUE IN step(s) = f[x] + g[s \ {x}]
  <2>1. PICK x : x = CHOOSE e \in s : TRUE
    OBVIOUS
  <2>2. PICK r : r = s \ {x}
    OBVIOUS
  <2>3. x \in s /\ r \in SUBSET T /\ r # T
    BY <1>4, <2>1, <2>2
  <2>4. Adds(f, r, sum(r))
    BY <1>3, <2>3
  <2>5. g[r] = sum(r)[r]
    <3>1. CASE r = {}
      <4>1. sum(r)[r] = 0
        <5> HIDE DEF sum
        <5> QED
          BY <2>4, <3>1 DEF Adds
      <4> QED
        BY <2>3, <3>1, <4>1
    <3>2. CASE r # {}
      <4>1. PICK y : y = CHOOSE e \in r : TRUE
        OBVIOUS
      <4>2. y \in r /\ r \ {y} \in SUBSET r /\ r \ {y} \in SUBSET T /\ r \ {y} # T
        BY <2>3, <3>2, <4>1
      <4>3. Adds(f, r \ {y}, sum(r \ {y}))
        BY <1>3, <4>2
      <4>4. sum(r \ {y})[r \ {y}] = sum(r)[r \ {y}]
        <5>1. r \in SUBSET S /\ r \ {y} \in SUBSET S /\ r \ {y} \in SUBSET ((r \ {y}) \cap r)
          BY <2>3, <4>2
        <5> HIDE DEF sum
        <5> QED
          BY <2>4, <4>3, <5>1, AddsAlike
      <4>5. sum(r)[r] = f[y] + sum(r)[r \ {y}]
        <5> HIDE DEF sum
        <5> QED
          BY <2>4, <3>2, <4>1 DEF Adds
      <4>6. g[r] = f[y] + sum(r \ {y})[r \ {y}]
        <5> HIDE DEF sum
        <5> QED
          BY <2>3, <3>2, <4>1
      <4> QED
        <5> HIDE DEF sum, g
        <5> QED
          BY <4>4, <4>5, <4>6
    <3> QED
      BY <3>1, <3>2
  <2> HIDE DEF sum, g
  <2> QED
    BY <2>1, <2>2, <2>5
<1>5. Adds(f, T, g)
  <2>1. \A s \in SUBSET T : g[s] = IF s = {} THEN 0 ELSE LET x == CHOOSE e \in s : TRUE IN f[x] + g[s \ {x}]
    <3> SUFFICES ASSUME NEW s \in SUBSET T
                 PROVE g[s] = IF s = {} THEN 0 ELSE LET x == CHOOSE e \in s : TRUE IN f[x] + g[s \ {x}]
      OBVIOUS
    <3>1. g[s] = IF s = {} THEN 0 ELSE step(s)
      <4> HIDE DEF step
      <4> QED
        OBVIOUS
    <3> HIDE DEF g, step
    <3> QED
      BY <3>1, <1>4
  <2>2. g = [s \in SUBSET T |-> g[s]]
    <3> HIDE DEF step
    <3> QED
      OBVIOUS
  <2> HIDE DEF g
  <2> QED
    BY <2>1, <2>2 DEF Adds
<1> HIDE DEF g
<1> QED
  BY <1>2, <1>5

LEMMA SumIs ==
  ASSUME NEW f, NEW S, IsFiniteSet(S), NEW T \in SUBSET S, NEW g, Adds(f, S, g)
  PROVE  SumFunctionOnSet(f, T) = g[T]
<1>1. IsFiniteSet(T)
  BY FS_Subset
<1>2. PICK h : h = CHOOSE g1 : Adds(f, T, g1)
  OBVIOUS
<1>3. Adds(f, T, h)
  BY <1>1, <1>2, AddsExists
<1>4. SumFunctionOnSet(f, T) = h[T]
  BY <1>2, Zenon DEF SumFunctionOnSet, FoldFunctionOnSet, MapThenFoldSet, Adds
<1>5. T \in SUBSET (S \cap T)
  OBVIOUS
<1> QED
  BY <1>3, <1>4, <1>5, AddsAlike

LEMMA SumOfNone == ASSUME NEW f PROVE SumFunctionOnSet(f, {}) = 0
<1>1. IsFiniteSet({})
  BY FS_EmptySet
<1>2. PICK g : Adds(f, {}, g)
  BY <1>1, AddsExists
<1>3. g[{}] = 0
  BY <1>2 DEF Adds
<1> QED
  BY <1>1, <1>2, <1>3, SumIs

\* Any member may be taken first: the sum is that member's and the others'.
LEMMA SumWithout ==
  ASSUME NEW f, NEW S, IsFiniteSet(S), NEW y \in S, \A x \in S : f[x] \in Int
  PROVE  /\ SumFunctionOnSet(f, S \ {y}) \in Int
         /\ SumFunctionOnSet(f, S) = f[y] + SumFunctionOnSet(f, S \ {y})
<1>1. PICK g : Adds(f, S, g)
  BY AddsExists
<1>2. \A T \in SUBSET S : SumFunctionOnSet(f, T) = g[T]
  BY <1>1, SumIs
<1>3. g[{}] = 0
  BY <1>1 DEF Adds
<1>4. \A T \in SUBSET S : T # {} => LET x == CHOOSE e \in T : TRUE IN g[T] = f[x] + g[T \ {x}]
  BY <1>1 DEF Adds
<1> DEFINE B == {T \in SUBSET S : g[T] \notin Int \/ \E z \in T : g[T] # f[z] + g[T \ {z}]}
<1>5. ASSUME B # {} PROVE FALSE
  <2>1. PICK T \in B : \A X \in B : X \subseteq T => X = T
    <3>1. B \in SUBSET SUBSET S
      OBVIOUS
    <3> HIDE DEF B
    <3> QED
      BY <1>5, <3>1, SmallestPart
  <2>2. T # {}
    <3>1. ASSUME T = {} PROVE FALSE
      <4>1. g[T] \in Int
        BY <1>3, <3>1
      <4> QED
        BY <3>1, <4>1
    <3> QED
      BY <3>1
  <2>3. PICK x : x \in T /\ g[T] = f[x] + g[T \ {x}]
    BY <1>4, <2>2
  <2>4. \A R \in SUBSET T : R # T => g[R] \in Int /\ \A z \in R : g[R] = f[z] + g[R \ {z}]
    BY <2>1
  <2>5. f[x] \in Int /\ T \ {x} \in SUBSET T /\ T \ {x} # T
    BY <2>3
  <2>6. g[T \ {x}] \in Int /\ g[T] \in Int
    BY <2>3, <2>4, <2>5
  <2>7. PICK z \in T : g[T] # f[z] + g[T \ {z}]
    BY <2>1, <2>6
  <2>8. z # x
    BY <2>3, <2>7
  <2>9. f[z] \in Int /\ T \ {z} \in SUBSET T /\ T \ {z} # T /\ z \in T \ {x} /\ x \in T \ {z}
    BY <2>3, <2>7, <2>8
  <2>10. g[T \ {x}] = f[z] + g[(T \ {z}) \ {x}]
    <3>1. (T \ {x}) \ {z} = (T \ {z}) \ {x}
      OBVIOUS
    <3>2. g[T \ {x}] = f[z] + g[(T \ {x}) \ {z}]
      BY <2>4, <2>5, <2>9
    <3> HIDE DEF B
    <3> QED
      BY <3>1, <3>2
  <2>11. g[T \ {z}] = f[x] + g[(T \ {z}) \ {x}]
    BY <2>4, <2>9
  <2>12. g[(T \ {z}) \ {x}] \in Int
    <3>1. (T \ {z}) \ {x} \in SUBSET T /\ (T \ {z}) \ {x} # T
      BY <2>3
    <3> QED
      BY <2>4, <3>1
  <2>13. PICK a, b, c \in Int : a = f[x] /\ b = f[z] /\ c = g[(T \ {z}) \ {x}]
    BY <2>5, <2>9, <2>12
  <2>14. g[T] = a + (b + c) /\ g[T] # b + (a + c)
    <3> HIDE DEF B
    <3> QED
      BY <2>3, <2>7, <2>10, <2>11, <2>13
  <2> QED
    BY <2>13, <2>14
<1>6. g[S] = f[y] + g[S \ {y}] /\ g[S \ {y}] \in Int
  <2>1. S \in SUBSET S /\ S \ {y} \in SUBSET S /\ S \notin B /\ S \ {y} \notin B
    BY <1>5
  <2> QED
    BY <2>1
<1> QED
  BY <1>2, <1>6

\* [lo[i], hi[i]), for i \in T, are the pieces of [a, b).
Parted(T, lo, hi, a, b) ==
  /\ a \in Int /\ b \in Int /\ a <= b
  /\ \A i \in T : lo[i] \in Int /\ hi[i] \in Int /\ a <= lo[i] /\ lo[i] < hi[i] /\ hi[i] <= b
  /\ \A s \in Int : a <= s /\ s < b => \E i \in T : lo[i] <= s /\ s < hi[i]
  /\ \A i, j \in T, s \in Int : lo[i] <= s /\ s < hi[i] /\ lo[j] <= s /\ s < hi[j] => i = j

\* The piece that ends last ends at b, and the others are those of what is left.
LEMMA LastPart ==
  ASSUME NEW T, NEW lo, NEW hi, NEW a, NEW b, Parted(T, lo, hi, a, b), T # {}
  PROVE  \E i \in T : hi[i] = b /\ Parted(T \ {i}, lo, hi, a, lo[i])
<1>1. a \in Int /\ b \in Int /\ a < b
  BY DEF Parted
<1>2. PICK i \in T : lo[i] <= b - 1 /\ b - 1 < hi[i]
  BY <1>1 DEF Parted
<1>3. lo[i] \in Int /\ hi[i] \in Int /\ a <= lo[i] /\ hi[i] <= b
  BY DEF Parted
<1>4. hi[i] = b
  BY <1>1, <1>2, <1>3
<1>5. ASSUME NEW j \in T \ {i} PROVE hi[j] <= lo[i]
  <2>1. lo[j] \in Int /\ hi[j] \in Int /\ lo[j] < hi[j] /\ hi[j] <= b
    BY DEF Parted
  <2>2. \A s \in Int : ~(lo[i] <= s /\ s < b /\ lo[j] <= s /\ s < hi[j])
    BY <1>4 DEF Parted
  <2> QED
    BY <1>1, <1>2, <1>3, <2>1, <2>2
<1>6. ASSUME NEW s \in Int, a <= s, s < lo[i] PROVE \E j \in T \ {i} : lo[j] <= s /\ s < hi[j]
  <2>1. s < b
    BY <1>1, <1>2, <1>3, <1>6
  <2>2. PICK j \in T : lo[j] <= s /\ s < hi[j]
    BY <1>6, <2>1 DEF Parted
  <2>3. j # i
    BY <1>3, <1>6, <2>2
  <2> QED
    BY <2>2, <2>3
<1>7. Parted(T \ {i}, lo, hi, a, lo[i])
  BY <1>1, <1>3, <1>5, <1>6 DEF Parted
<1> QED
  BY <1>4, <1>7

\* What is priced by its length adds up to the price of the whole.
LEMMA PartedSum ==
  ASSUME NEW S, IsFiniteSet(S), NEW lo, NEW hi, NEW a, NEW b, Parted(S, lo, hi, a, b),
         NEW K \in Int, NEW f, \A i \in S : f[i] = K * (hi[i] - lo[i])
  PROVE  SumFunctionOnSet(f, S) = K * (b - a)
<1> DEFINE B == {T \in SUBSET S : \E c \in Int : Parted(T, lo, hi, a, c) /\ SumFunctionOnSet(f, T) # K * (c - a)}
<1>1. SUFFICES ASSUME B # {} PROVE FALSE
  <2>1. S \in SUBSET S /\ b \in Int
    BY DEF Parted
  <2> QED
    BY <2>1
<1>2. PICK T \in B : \A X \in B : X \subseteq T => X = T
  <2>1. B \in SUBSET SUBSET S
    OBVIOUS
  <2> HIDE DEF B
  <2> QED
    BY <1>1, <2>1, SmallestPart
<1>3. PICK c \in Int : Parted(T, lo, hi, a, c) /\ SumFunctionOnSet(f, T) # K * (c - a)
  OBVIOUS
<1>4. IsFiniteSet(T) /\ a \in Int
  BY <1>3, FS_Subset DEF Parted
<1>5. T # {}
  <2>1. ASSUME T = {} PROVE FALSE
    <3>1. a = c
      BY <1>3, <2>1 DEF Parted
    <3>2. K * (c - a) = 0
      BY <1>4, <3>1
    <3> QED
      BY <1>3, <2>1, <3>2, SumOfNone
  <2> QED
    BY <2>1
<1>6. PICK i \in T : hi[i] = c /\ Parted(T \ {i}, lo, hi, a, lo[i])
  <2>1. Parted(T, lo, hi, a, c)
    BY <1>3
  <2> QED
    BY ONLY <2>1, <1>5, LastPart, Zenon
<1>7. lo[i] \in Int
  BY <1>6 DEF Parted
<1>8. SumFunctionOnSet(f, T \ {i}) = K * (lo[i] - a)
  <2>1. T \ {i} \in SUBSET S /\ T \ {i} \subseteq T /\ T \ {i} # T
    OBVIOUS
  <2>2. T \ {i} \notin B
    <3> HIDE DEF B
    <3> QED
      BY <1>2, <2>1
  <2> QED
    BY <1>6, <1>7, <2>1, <2>2
<1>9. \A j \in T : f[j] \in Int
  <2> SUFFICES ASSUME NEW j \in T PROVE f[j] \in Int
    OBVIOUS
  <2>1. lo[j] \in Int /\ hi[j] \in Int /\ f[j] = K * (hi[j] - lo[j])
    BY <1>3 DEF Parted
  <2> QED
    BY <2>1
<1>10. SumFunctionOnSet(f, T) = f[i] + SumFunctionOnSet(f, T \ {i})
  <2> HIDE DEF B
  <2> QED
    BY <1>4, <1>9, SumWithout
<1>11. f[i] = K * (c - lo[i])
  BY <1>6
<1>12. SumFunctionOnSet(f, T) = K * (c - lo[i]) + K * (lo[i] - a)
  BY <1>8, <1>10, <1>11
<1>13. K * (c - lo[i]) + K * (lo[i] - a) = K * (c - a)
  BY <1>4, <1>7
<1> QED
  BY <1>3, <1>12, <1>13

-----------------------------------------------------------------------------
(* Pieces.                                                                  *)

\* The boundaries of a cut of [a, b).
Bounds(C, a, b) == a \in Nat /\ b \in Nat /\ a < b /\ C \subseteq a..b /\ {a, b} \subseteq C

At(p, s) == p[1] <= s /\ s < p[2]

LEMMA PieceIn ==
  ASSUME NEW a, NEW b, NEW C, Bounds(C, a, b), NEW p \in Pieces(C)
  PROVE  /\ p[1] \in C /\ p[2] \in C /\ p = <<p[1], p[2]>> /\ p[1] \in Nat /\ p[2] \in Nat
         /\ a <= p[1] /\ p[1] < p[2] /\ p[2] <= b
         /\ \A c \in C : c <= p[1] \/ p[2] <= c
<1>1. p \in C \X C /\ p[1] < p[2] /\ \A c \in C : c <= p[1] \/ p[2] <= c
  BY DEF Pieces
<1>2. p[1] \in C /\ p[2] \in C /\ p = <<p[1], p[2]>>
  BY <1>1
<1>3. \A c \in C : c \in Nat /\ a <= c /\ c <= b
  BY DEF Bounds
<1> QED
  BY <1>1, <1>2, <1>3

\* Every second is in a piece, and in one only.
LEMMA PieceAt ==
  ASSUME NEW a, NEW b, NEW C, Bounds(C, a, b), NEW s \in Nat, a <= s, s < b
  PROVE  \E p \in Pieces(C) : At(p, s)
<1> DEFINE L == {c \in C : c <= s}  R == {c \in C : s < c}
<1>0. a \in Nat /\ b \in Nat /\ \A c \in C : c \in Nat /\ c <= b
  BY DEF Bounds
<1>1. L \in SUBSET (0..b) /\ a \in L /\ R \in SUBSET (0..b) /\ b \in R
  <2>1. a \in C /\ b \in C /\ \A c \in C : c \in 0..b
    BY <1>0 DEF Bounds
  <2> QED
    BY <2>1
<1>2. PICK x \in L : \A k \in L : k <= x
  <2> HIDE DEF L
  <2> QED
    BY <1>0, <1>1, Greatest
<1>3. PICK y \in R : \A k \in R : y <= k
  <2> HIDE DEF R
  <2> QED
    BY <1>0, <1>1, Smallest
<1>4. x \in C /\ y \in C /\ x <= s /\ s < y /\ x \in Nat /\ y \in Nat
  BY <1>0
<1>5. \A c \in C : c <= x \/ y <= c
  BY <1>0, <1>2, <1>3
<1>6. <<x, y>> \in Pieces(C)
  <2>1. <<x, y>>[1] = x /\ <<x, y>>[2] = y /\ x < y
    BY <1>4
  <2> QED
    BY <1>4, <1>5, <2>1 DEF Pieces
<1> QED
  BY <1>4, <1>6 DEF At

LEMMA PieceOnce ==
  ASSUME NEW a, NEW b, NEW C, Bounds(C, a, b), NEW p \in Pieces(C), NEW q \in Pieces(C),
         NEW s \in Nat, At(p, s), At(q, s)
  PROVE  p = q
<1>1. /\ p[1] \in C /\ p[2] \in C /\ p = <<p[1], p[2]>> /\ p[1] \in Nat /\ p[2] \in Nat
      /\ \A c \in C : c <= p[1] \/ p[2] <= c
  BY PieceIn
<1>2. /\ q[1] \in C /\ q[2] \in C /\ q = <<q[1], q[2]>> /\ q[1] \in Nat /\ q[2] \in Nat
      /\ \A c \in C : c <= q[1] \/ q[2] <= c
  BY PieceIn
<1>3. p[1] = q[1] /\ p[2] = q[2]
  <2>1. q[1] <= p[1] /\ p[2] <= q[2]
    BY <1>1, <1>2 DEF At
  <2>2. p[1] <= q[1] /\ q[2] <= p[2]
    BY <1>1, <1>2 DEF At
  <2> QED
    BY <1>1, <1>2, <2>1, <2>2
<1> QED
  BY <1>1, <1>2, <1>3

\* The cuts of [a, b) at dates are such boundaries.
LEMMA CutsAre ==
  ASSUME NEW a \in Nat, NEW b \in Nat, a < b, NEW D \in SUBSET Nat
  PROVE  Bounds(Cuts(a, b, D), a, b)
<1> DEFINE E == {e \in D : a < e /\ e < b}
<1>1. \A e \in E : e \in a..b
  <2>1. \A e \in D : e \in Nat
    OBVIOUS
  <2> QED
    BY <2>1
<1>2. a \in a..b /\ b \in a..b
  OBVIOUS
<1> HIDE DEF E
<1>3. {a, b} \cup E \subseteq a..b
  BY <1>1, <1>2
<1> QED
  BY <1>3 DEF Cuts, Bounds, E

-----------------------------------------------------------------------------
(* Segments: each second at its rate.                                       *)

LEMMA RateHolds ==
  ASSUME rates \in SUBSET Nat, NEW x \in Nat, NEW s \in Nat, x <= s,
         \A e \in rates : e <= x \/ s < e
  PROVE  InForce(x) = InForce(s)
<1>1. {e \in rates : e <= x} = {e \in rates : e <= s}
  <2>1. \A e \in rates : e \in Nat
    OBVIOUS
  <2>2. \A e \in rates : e <= x <=> e <= s
    BY <2>1
  <2> QED
    BY <2>2
<1>2. (\E e \in rates : e <= x) <=> (\E e \in rates : e <= s)
  BY <1>1
<1> QED
  BY <1>1, <1>2 DEF InForce

LEMMA SegmentIn ==
  ASSUME rates \in SUBSET Nat, NEW a \in Nat, NEW b \in Nat, a < b, NEW g \in Segments(a, b)
  PROVE  /\ g.from \in Nat /\ g.to \in Nat /\ a <= g.from /\ g.from < g.to /\ g.to <= b
         /\ \A s \in Nat : Covers(g, s) => g.rate = InForce(s)
         /\ \E p \in Pieces(Cuts(a, b, rates)) :
              g = [from |-> p[1], to |-> p[2], rate |-> InForce(p[1])]
<1> DEFINE C == Cuts(a, b, rates)
<1>1. PICK p \in Pieces(C) : g = [from |-> p[1], to |-> p[2], rate |-> InForce(p[1])]
  BY DEF Segments
<1>2. Bounds(C, a, b)
  BY CutsAre
<1> HIDE DEF C
<1>3. /\ p[1] \in Nat /\ p[2] \in Nat /\ a <= p[1] /\ p[1] < p[2] /\ p[2] <= b
      /\ \A c \in C : c <= p[1] \/ p[2] <= c
  BY <1>2, PieceIn
<1>4. ASSUME NEW s \in Nat, Covers(g, s) PROVE g.rate = InForce(s)
  <2>1. p[1] <= s /\ s < p[2]
    BY <1>1, <1>4 DEF Covers
  <2>2. \A e \in rates : e <= p[1] \/ s < e
    <3> TAKE e \in rates
    <3>1. CASE a < e /\ e < b
      <4>1. e \in C
        BY <3>1 DEF C, Cuts
      <4> QED
        BY <1>3, <2>1, <4>1
    <3>2. CASE ~(a < e /\ e < b)
      BY <1>3, <2>1, <3>2
    <3> QED
      BY <3>1, <3>2
  <2> QED
    BY <1>1, <1>3, <2>1, <2>2, RateHolds
<1> QED
  BY <1>1, <1>3, <1>4 DEF C

LEMMA SegmentAt ==
  ASSUME rates \in SUBSET Nat, NEW a \in Nat, NEW b \in Nat, a < b, NEW s \in Nat, a <= s, s < b
  PROVE  \E g \in Segments(a, b) : Covers(g, s)
<1>1. Bounds(Cuts(a, b, rates), a, b)
  BY CutsAre
<1>2. PICK p \in Pieces(Cuts(a, b, rates)) : At(p, s)
  BY <1>1, PieceAt
<1>3. PICK g : g = [from |-> p[1], to |-> p[2], rate |-> InForce(p[1])]
  OBVIOUS
<1>4. g \in Segments(a, b)
  BY <1>2, <1>3 DEF Segments
<1> QED
  BY <1>2, <1>3, <1>4 DEF At, Covers

LEMMA SegmentOnce ==
  ASSUME rates \in SUBSET Nat, NEW a \in Nat, NEW b \in Nat, a < b, NEW s \in Nat,
         NEW g \in Segments(a, b), NEW h \in Segments(a, b), Covers(g, s), Covers(h, s)
  PROVE  g = h
<1> DEFINE C == Cuts(a, b, rates)
<1>1. Bounds(C, a, b)
  BY CutsAre
<1>2. PICK p \in Pieces(C) : g = [from |-> p[1], to |-> p[2], rate |-> InForce(p[1])]
  BY DEF Segments
<1>3. PICK q \in Pieces(C) : h = [from |-> q[1], to |-> q[2], rate |-> InForce(q[1])]
  BY DEF Segments
<1> HIDE DEF C
<1>4. At(p, s) /\ At(q, s)
  BY <1>2, <1>3 DEF At, Covers
<1>5. p = q
  BY <1>1, <1>4, PieceOnce
<1> QED
  BY <1>2, <1>3, <1>5

-----------------------------------------------------------------------------
(* The ledger.                                                              *)

Records == [event : {"open", "close"}, uid : Uids, at : Nat, opened : Nat]

\* Per uid the intervals follow one another: each closed one starts after the
\* end of those before it, and at most one is open, after them all.
RecsFit ==
  /\ recs \in Seq(Records)
  /\ \A i \in DOMAIN recs : recs[i].opened <= recs[i].at
  /\ \A u \in Uids :
       /\ \A i, j \in OpenNow(u) : i = j
       /\ \A i \in OpenNow(u), j \in Closes(u) : recs[j].at <= recs[i].at
       /\ \A i, j \in Closes(u) : i < j => recs[i].at <= recs[j].opened

In(i, s) == i.from <= s /\ (i.to = Never \/ s < i.to)

LEMMA RecordsAre ==
  ASSUME RecsFit
  PROVE  /\ Len(recs) \in Nat /\ DOMAIN recs = 1..Len(recs)
         /\ \A i \in DOMAIN recs : /\ recs[i] \in Records /\ recs[i].at \in Nat
                                   /\ recs[i].opened \in Nat /\ recs[i].opened <= recs[i].at
<1>1. Len(recs) \in Nat /\ DOMAIN recs = 1..Len(recs) /\ recs \in [1..Len(recs) -> Records]
  BY LenProperties DEF RecsFit
<1>2. \A i \in DOMAIN recs : recs[i] \in Records
  BY <1>1
<1> QED
  BY <1>1, <1>2 DEF RecsFit, Records

LEMMA IntervalIs ==
  ASSUME RecsFit, NEW u \in Uids, NEW i \in Intervals(u)
  PROVE  \/ \E k \in Closes(u) : i.from = recs[k].opened /\ i.to = recs[k].at /\ i.to \in Nat
                                 /\ i = [from |-> recs[k].opened, to |-> recs[k].at]
         \/ \E k \in OpenNow(u) : i.from = recs[k].at /\ i.to = Never
                                  /\ i = [from |-> recs[k].at, to |-> Never]
<1>1. CASE \E k \in Closes(u) : i = [from |-> recs[k].opened, to |-> recs[k].at]
  <2>1. PICK k \in Closes(u) : i = [from |-> recs[k].opened, to |-> recs[k].at]
    BY <1>1
  <2>2. k \in DOMAIN recs
    BY DEF Closes
  <2> QED
    BY <2>1, <2>2, RecordsAre
<1>2. CASE \E k \in OpenNow(u) : i = [from |-> recs[k].at, to |-> Never]
  BY <1>2
<1> QED
  BY <1>1, <1>2 DEF Intervals

\* No second is in two intervals of a uid.
LEMMA IntervalsApart ==
  ASSUME RecsFit, NEW u \in Uids, NEW i \in Intervals(u), NEW j \in Intervals(u),
         NEW s \in Nat, In(i, s), In(j, s)
  PROVE  i = j
<1>0. Never \notin Nat
  BY DEF Never
<1>1. \A k \in Closes(u) \cup OpenNow(u) :
        /\ k \in Nat /\ recs[k].at \in Nat /\ recs[k].opened \in Nat /\ recs[k].opened <= recs[k].at
  <2>1. \A k \in Closes(u) \cup OpenNow(u) : k \in DOMAIN recs
    BY DEF Closes, OpenNow, Opens
  <2> QED
    BY <2>1, RecordsAre
<1>2. ASSUME NEW k \in Closes(u), NEW m \in Closes(u), recs[k].opened <= s, s < recs[k].at,
             recs[m].opened <= s, s < recs[m].at
      PROVE  k = m
  <2>1. k < m => recs[k].at <= recs[m].opened
    BY DEF RecsFit
  <2>2. m < k => recs[m].at <= recs[k].opened
    BY DEF RecsFit
  <2> QED
    BY <1>1, <1>2, <2>1, <2>2
<1>3. ASSUME NEW k \in Closes(u), NEW m \in OpenNow(u), s < recs[k].at, recs[m].at <= s
      PROVE  FALSE
  <2>1. recs[k].at <= recs[m].at
    BY DEF RecsFit
  <2> QED
    BY <1>1, <1>3, <2>1
<1>4. \A k, m \in OpenNow(u) : k = m
  BY DEF RecsFit
<1>5. CASE i.to = Never /\ j.to = Never
  <2>1. PICK k \in OpenNow(u) : i = [from |-> recs[k].at, to |-> Never]
    BY <1>0, <1>5, IntervalIs
  <2>2. PICK m \in OpenNow(u) : j = [from |-> recs[m].at, to |-> Never]
    BY <1>0, <1>5, IntervalIs
  <2> QED
    BY <1>4, <2>1, <2>2
<1>6. CASE i.to # Never /\ j.to # Never
  <2>1. PICK k \in Closes(u) : i = [from |-> recs[k].opened, to |-> recs[k].at]
    BY <1>0, <1>6, IntervalIs
  <2>2. PICK m \in Closes(u) : j = [from |-> recs[m].opened, to |-> recs[m].at]
    BY <1>0, <1>6, IntervalIs
  <2>3. recs[k].opened <= s /\ s < recs[k].at /\ recs[m].opened <= s /\ s < recs[m].at
    BY <1>6, <2>1, <2>2 DEF In
  <2> QED
    BY <1>2, <2>1, <2>2, <2>3
<1>7. CASE i.to # Never /\ j.to = Never
  <2>1. PICK k \in Closes(u) : i = [from |-> recs[k].opened, to |-> recs[k].at]
    BY <1>0, <1>7, IntervalIs
  <2>2. PICK m \in OpenNow(u) : j = [from |-> recs[m].at, to |-> Never]
    BY <1>0, <1>7, IntervalIs
  <2>3. s < recs[k].at /\ recs[m].at <= s
    BY <1>7, <2>1, <2>2 DEF In
  <2> QED
    BY <1>3, <2>3
<1>8. CASE i.to = Never /\ j.to # Never
  <2>1. PICK k \in Closes(u) : j = [from |-> recs[k].opened, to |-> recs[k].at]
    BY <1>0, <1>8, IntervalIs
  <2>2. PICK m \in OpenNow(u) : i = [from |-> recs[m].at, to |-> Never]
    BY <1>0, <1>8, IntervalIs
  <2>3. s < recs[k].at /\ recs[m].at <= s
    BY <1>8, <2>1, <2>2 DEF In
  <2> QED
    BY <1>3, <2>3
<1> QED
  BY <1>5, <1>6, <1>7, <1>8

\* What an append does to the positions.
LEMMA Grown ==
  ASSUME RecsFit, NEW e \in Records, e.opened <= e.at, recs' = Append(recs, e),
         NEW n, n = Len(recs) + 1
  PROVE  /\ n \in Nat /\ n \notin DOMAIN recs /\ DOMAIN recs' = DOMAIN recs \cup {n}
         /\ recs' \in Seq(Records) /\ recs'[n] = e
         /\ \A i \in DOMAIN recs : recs'[i] = recs[i] /\ i < n
         /\ \A i \in DOMAIN recs' : recs'[i].opened <= recs'[i].at
         /\ \A v : v # e.uid => Closes(v)' = Closes(v) /\ OpenNow(v)' = OpenNow(v)
         /\ e.event = "open" =>
              Closes(e.uid)' = Closes(e.uid) /\ OpenNow(e.uid)' = OpenNow(e.uid) \cup {n}
         /\ e.event = "close" =>
              Closes(e.uid)' = Closes(e.uid) \cup {n} /\ OpenNow(e.uid)' = {}
<1>1. Len(recs) \in Nat /\ DOMAIN recs = 1..Len(recs)
  BY RecordsAre
<1>2. /\ recs' \in Seq(Records) /\ Len(recs') = n /\ recs'[n] = e
      /\ \A i \in 1..Len(recs) : recs'[i] = recs[i]
  BY AppendProperties DEF RecsFit
<1>3. DOMAIN recs' = 1..n
  BY <1>2, LenProperties
<1>4. /\ n \in Nat /\ n \notin DOMAIN recs /\ DOMAIN recs' = DOMAIN recs \cup {n}
      /\ \A i \in DOMAIN recs : recs'[i] = recs[i] /\ i < n /\ i \in Nat
  BY <1>1, <1>2, <1>3
<1>5. \A i \in DOMAIN recs' : recs'[i].opened <= recs'[i].at
  BY <1>2, <1>4 DEF RecsFit
<1>6. ASSUME NEW v
      PROVE  /\ Closes(v)' = Closes(v) \cup {i \in {n} : e.uid = v /\ e.event = "close"}
             /\ Opens(v)' = Opens(v) \cup {i \in {n} : e.uid = v /\ e.event = "open"}
  BY <1>2, <1>4 DEF Closes, Opens
<1>7. \A v : \A i \in Closes(v) \cup Opens(v) : i < n /\ i \in Nat
  BY <1>4 DEF Closes, Opens
<1>8. ASSUME NEW v, v # e.uid PROVE Closes(v)' = Closes(v) /\ OpenNow(v)' = OpenNow(v)
  <2>1. /\ {i \in {n} : e.uid = v /\ e.event = "close"} = {}
        /\ {i \in {n} : e.uid = v /\ e.event = "open"} = {}
    BY <1>8
  <2>2. Closes(v)' = Closes(v) \cup {} /\ Opens(v)' = Opens(v) \cup {}
    BY <1>6, <2>1
  <2>3. Closes(v)' = Closes(v) /\ Opens(v)' = Opens(v)
    BY <2>2
  <2> QED
    BY <2>3 DEF OpenNow
<1>9. CASE e.event = "open"
  <2>0. /\ {i \in {n} : e.uid = e.uid /\ e.event = "close"} = {}
        /\ {i \in {n} : e.uid = e.uid /\ e.event = "open"} = {n}
    BY <1>9
  <2>1. Closes(e.uid)' = Closes(e.uid) \cup {} /\ Opens(e.uid)' = Opens(e.uid) \cup {n}
    BY <1>6, <2>0
  <2>2. \A j \in Closes(e.uid) : j < n
    BY <1>7
  <2> QED
    BY <1>2, <1>4, <1>5, <1>8, <1>9, <2>1, <2>2 DEF OpenNow
<1>10. CASE e.event = "close"
  <2>0. /\ {i \in {n} : e.uid = e.uid /\ e.event = "close"} = {n}
        /\ {i \in {n} : e.uid = e.uid /\ e.event = "open"} = {}
    BY <1>10
  <2>1. Closes(e.uid)' = Closes(e.uid) \cup {n} /\ Opens(e.uid)' = Opens(e.uid) \cup {}
    BY <1>6, <2>0
  <2>2. \A i \in Opens(e.uid) : ~(n < i)
    BY <1>4, <1>7
  <2> QED
    BY <1>2, <1>4, <1>5, <1>8, <1>10, <2>1, <2>2 DEF OpenNow
<1> QED
  BY <1>9, <1>10 DEF Records

\* The last close of a uid is the latest.
LEMMA LastIs ==
  ASSUME RecsFit, NEW u \in Uids
  PROVE  LastAt(u) \in Nat /\ \A k \in Closes(u) : recs[k].at <= LastAt(u)
<1>1. CASE Closes(u) = {}
  BY <1>1 DEF LastAt
<1>2. CASE Closes(u) # {}
  <2>1. Len(recs) \in Nat /\ \A k \in Closes(u) : k \in DOMAIN recs /\ k \in 0..Len(recs)
    BY RecordsAre DEF Closes
  <2>2. PICK m : m = Max(Closes(u))
    OBVIOUS
  <2>3. m \in Closes(u) /\ \A k \in Closes(u) : k <= m
    <3>1. Closes(u) \in SUBSET (0..Len(recs))
      BY <2>1
    <3> QED
      BY <1>2, <2>1, <2>2, <3>1, MaxIs
  <2>4. LastAt(u) = recs[m].at
    BY <1>2, <2>2 DEF LastAt
  <2>5. ASSUME NEW k \in Closes(u) PROVE recs[k].at <= recs[m].at
    <3>1. k \in 0..Len(recs) /\ m \in 0..Len(recs) /\ k <= m
      BY <2>1, <2>3
    <3>2. k < m => recs[k].at <= recs[m].opened
      BY <2>3 DEF RecsFit
    <3>3. recs[k].at \in Nat /\ recs[m].at \in Nat /\ recs[m].opened \in Nat /\ recs[m].opened <= recs[m].at
      BY <2>1, <2>3, RecordsAre
    <3>4. k = m \/ k < m
      BY <3>1
    <3> QED
      BY <3>2, <3>3, <3>4
  <2>6. recs[m].at \in Nat
    BY <2>1, <2>3, RecordsAre
  <2> QED
    BY <2>4, <2>5, <2>6
<1> QED
  BY <1>1, <1>2

\* A second is held by a closed interval or by the open one.
LEMMA HeldIs ==
  ASSUME RecsFit, NEW u \in Uids, NEW s \in Nat
  PROVE  Held(u, s) <=> \/ \E k \in Closes(u) : recs[k].opened <= s /\ s < recs[k].at
                        \/ \E k \in OpenNow(u) : recs[k].at <= s
<1>0. Never \notin Nat
  BY DEF Never
<1>1. \A k \in Closes(u) : recs[k].at \in Nat
  BY RecordsAre DEF Closes
<1>2. ASSUME Held(u, s)
      PROVE  \/ \E k \in Closes(u) : recs[k].opened <= s /\ s < recs[k].at
             \/ \E k \in OpenNow(u) : recs[k].at <= s
  <2>1. PICK i \in Intervals(u) : i.from <= s /\ (i.to = Never \/ s < i.to)
    BY <1>2 DEF Held
  <2> QED
    BY <1>0, <2>1, IntervalIs
<1>3. ASSUME NEW k \in Closes(u), recs[k].opened <= s, s < recs[k].at PROVE Held(u, s)
  <2>1. [from |-> recs[k].opened, to |-> recs[k].at] \in Intervals(u)
    BY DEF Intervals
  <2> QED
    BY <1>3, <2>1 DEF Held
<1>4. ASSUME NEW k \in OpenNow(u), recs[k].at <= s PROVE Held(u, s)
  <2>1. [from |-> recs[k].at, to |-> Never] \in Intervals(u)
    BY DEF Intervals
  <2> QED
    BY <1>4, <2>1 DEF Held
<1> QED
  BY <1>2, <1>3, <1>4

\* The same of the next state.
LEMMA HeldNext ==
  ASSUME RecsFit', NEW u \in Uids, NEW s \in Nat
  PROVE  Held(u, s)' <=> \/ \E k \in Closes(u)' : recs'[k].opened <= s /\ s < recs'[k].at
                         \/ \E k \in OpenNow(u)' : recs'[k].at <= s
<1>0. Never \notin Nat
  BY DEF Never
<1>1. \A k \in Closes(u)' : recs'[k].at \in Nat
  <2>1. Len(recs') \in Nat /\ DOMAIN recs' = 1..Len(recs') /\ recs' \in [1..Len(recs') -> Records]
    BY LenProperties DEF RecsFit
  <2>2. \A k \in DOMAIN recs' : recs'[k] \in Records
    BY <2>1
  <2> QED
    BY <2>2 DEF Closes, Records
<1>2. ASSUME NEW i \in Intervals(u)', i.from <= s, i.to = Never \/ s < i.to
      PROVE  \/ \E k \in Closes(u)' : recs'[k].opened <= s /\ s < recs'[k].at
             \/ \E k \in OpenNow(u)' : recs'[k].at <= s
  <2>1. CASE \E k \in Closes(u)' : i = [from |-> recs'[k].opened, to |-> recs'[k].at]
    BY <1>0, <1>1, <1>2, <2>1
  <2>2. CASE \E k \in OpenNow(u)' : i = [from |-> recs'[k].at, to |-> Never]
    BY <1>2, <2>2
  <2> QED
    BY <2>1, <2>2 DEF Intervals
<1>3. ASSUME NEW k \in Closes(u)', recs'[k].opened <= s, s < recs'[k].at PROVE Held(u, s)'
  <2>1. [from |-> recs'[k].opened, to |-> recs'[k].at] \in Intervals(u)'
    BY DEF Intervals
  <2> QED
    BY <1>3, <2>1 DEF Held
<1>4. ASSUME NEW k \in OpenNow(u)', recs'[k].at <= s PROVE Held(u, s)'
  <2>1. [from |-> recs'[k].at, to |-> Never] \in Intervals(u)'
    BY DEF Intervals
  <2> QED
    BY <1>4, <2>1 DEF Held
<1> QED
  BY <1>2, <1>3, <1>4 DEF Held

\* A record dated at changes nothing before at, nor of another uid.
Told(u, at) == \A v \in Uids, s \in Nat : (v = u => s < at) => (Held(v, s)' <=> Held(v, s))

LEMMA OpenGrows ==
  ASSUME RecsFit, NEW u \in Uids, NEW at \in Nat, RecordOpen(u, at)
  PROVE  RecsFit' /\ Told(u, at)
<1>1. PICK e : e = [event |-> "open", uid |-> u, at |-> at, opened |-> at]
  OBVIOUS
<1>2. e \in Records /\ e.uid = u /\ e.at = at /\ e.opened = at /\ e.event = "open" /\ e.opened <= e.at
  BY <1>1 DEF Records
<1>3. recs' = Append(recs, e) /\ OpenNow(u) = {} /\ LastAt(u) <= at
  BY <1>1 DEF RecordOpen
<1>4. PICK n : n = Len(recs) + 1
  OBVIOUS
<1>5. /\ recs' \in Seq(Records) /\ recs'[n] = e /\ n \notin DOMAIN recs
      /\ \A i \in DOMAIN recs : recs'[i] = recs[i]
      /\ \A i \in DOMAIN recs' : recs'[i].opened <= recs'[i].at
      /\ \A v : v # u => Closes(v)' = Closes(v) /\ OpenNow(v)' = OpenNow(v)
      /\ Closes(u)' = Closes(u) /\ OpenNow(u)' = {n}
  BY <1>2, <1>3, <1>4, Grown
<1>6. \A v : \A k \in Closes(v) \cup OpenNow(v) : k \in DOMAIN recs /\ recs'[k] = recs[k]
  BY <1>5 DEF Closes, OpenNow, Opens
<1>7. \A k \in Closes(u) : recs[k].at <= at
  <2>1. \A k \in Closes(u) : recs[k].at \in Nat
    BY <1>6, RecordsAre
  <2>2. LastAt(u) \in Nat /\ \A k \in Closes(u) : recs[k].at <= LastAt(u)
    BY LastIs
  <2> QED
    BY <1>3, <2>1, <2>2
<1>8. ASSUME NEW v \in Uids
      PROVE  /\ \A i, j \in OpenNow(v)' : i = j
             /\ \A i \in OpenNow(v)', j \in Closes(v)' : recs'[j].at <= recs'[i].at
             /\ \A i, j \in Closes(v)' : i < j => recs'[i].at <= recs'[j].opened
  <2>1. CASE v = u
    BY <1>2, <1>5, <1>6, <1>7, <2>1 DEF RecsFit
  <2>2. CASE v # u
    BY <1>5, <1>6, <2>2 DEF RecsFit
  <2> QED
    BY <2>1, <2>2
<1>9. RecsFit'
  BY <1>5, <1>8 DEF RecsFit
<1>10. ASSUME NEW v \in Uids, NEW s \in Nat, v = u => s < at PROVE Held(v, s)' <=> Held(v, s)
  <2>1. CASE v = u
    <3>1. Held(u, s)' <=> \/ \E k \in Closes(u) : recs[k].opened <= s /\ s < recs[k].at
                          \/ at <= s
      BY <1>2, <1>5, <1>6, <1>9, HeldNext
    <3>2. Held(u, s) <=> \E k \in Closes(u) : recs[k].opened <= s /\ s < recs[k].at
      BY <1>3, HeldIs
    <3> QED
      BY <1>10, <2>1, <3>1, <3>2
  <2>2. CASE v # u
    <3>1. Held(v, s)' <=> \/ \E k \in Closes(v) : recs[k].opened <= s /\ s < recs[k].at
                          \/ \E k \in OpenNow(v) : recs[k].at <= s
      BY <1>5, <1>6, <1>9, <2>2, HeldNext
    <3> QED
      BY <3>1, HeldIs
  <2> QED
    BY <2>1, <2>2
<1> QED
  BY <1>9, <1>10 DEF Told

LEMMA CloseGrows ==
  ASSUME RecsFit, NEW u \in Uids, NEW at \in Nat, RecordClose(u, at)
  PROVE  RecsFit' /\ Told(u, at)
<1>0. PICK o \in OpenNow(u) :
        recs[o].at <= at /\ recs' = Append(recs, [event |-> "close", uid |-> u, at |-> at, opened |-> recs[o].at])
  BY DEF RecordClose
<1>1. PICK e : e = [event |-> "close", uid |-> u, at |-> at, opened |-> recs[o].at]
  OBVIOUS
<1>2. /\ e \in Records /\ e.uid = u /\ e.at = at /\ e.opened = recs[o].at /\ e.event = "close"
      /\ e.opened <= e.at /\ recs[o].at \in Nat
  <2>1. recs[o].at \in Nat
    BY RecordsAre DEF OpenNow, Opens
  <2> QED
    BY <1>0, <1>1, <2>1 DEF Records
<1>3. recs' = Append(recs, e)
  BY <1>0, <1>1
<1>4. PICK n : n = Len(recs) + 1
  OBVIOUS
<1>5. /\ recs' \in Seq(Records) /\ recs'[n] = e /\ n \notin DOMAIN recs /\ n \in Nat
      /\ \A i \in DOMAIN recs : recs'[i] = recs[i] /\ i < n
      /\ \A i \in DOMAIN recs' : recs'[i].opened <= recs'[i].at
      /\ \A v : v # u => Closes(v)' = Closes(v) /\ OpenNow(v)' = OpenNow(v)
      /\ Closes(u)' = Closes(u) \cup {n} /\ OpenNow(u)' = {}
  BY <1>2, <1>3, <1>4, Grown
<1>6. \A v : \A k \in Closes(v) \cup OpenNow(v) : k \in DOMAIN recs /\ recs'[k] = recs[k]
  BY <1>5 DEF Closes, OpenNow, Opens
<1>7. /\ \A k \in Closes(u) : recs[k].at <= recs[o].at
      /\ \A k \in OpenNow(u) : k = o
  BY DEF RecsFit
<1>8. ASSUME NEW v \in Uids
      PROVE  /\ \A i, j \in OpenNow(v)' : i = j
             /\ \A i \in OpenNow(v)', j \in Closes(v)' : recs'[j].at <= recs'[i].at
             /\ \A i, j \in Closes(v)' : i < j => recs'[i].at <= recs'[j].opened
  <2>1. CASE v = u
    <3>1. ASSUME NEW i \in Closes(u)', NEW j \in Closes(u)', i < j
          PROVE  recs'[i].at <= recs'[j].opened
      <4>1. CASE i \in Closes(u) /\ j \in Closes(u)
        BY <1>6, <3>1, <4>1 DEF RecsFit
      <4>2. CASE i \in Closes(u) /\ j = n
        BY <1>2, <1>5, <1>6, <1>7, <4>2
      <4>3. CASE i = n
        <5>1. j = n \/ (j < n /\ j \in Nat)
          BY <1>5, <1>6, RecordsAre
        <5> QED
          BY <1>5, <3>1, <4>3, <5>1
      <4> QED
        BY <1>5, <4>1, <4>2, <4>3
    <3> QED
      BY <1>5, <2>1, <3>1
  <2>2. CASE v # u
    BY <1>5, <1>6, <2>2 DEF RecsFit
  <2> QED
    BY <2>1, <2>2
<1>9. RecsFit'
  BY <1>5, <1>8 DEF RecsFit
<1>10. ASSUME NEW v \in Uids, NEW s \in Nat, v = u => s < at PROVE Held(v, s)' <=> Held(v, s)
  <2>1. CASE v = u
    <3>1. Held(u, s)' <=> \/ \E k \in Closes(u) : recs[k].opened <= s /\ s < recs[k].at
                          \/ recs[o].at <= s /\ s < at
      BY <1>2, <1>5, <1>6, <1>9, HeldNext
    <3>2. Held(u, s) <=> \/ \E k \in Closes(u) : recs[k].opened <= s /\ s < recs[k].at
                         \/ recs[o].at <= s
      BY <1>7, HeldIs
    <3> QED
      BY <1>10, <2>1, <3>1, <3>2
  <2>2. CASE v # u
    <3>1. Held(v, s)' <=> \/ \E k \in Closes(v) : recs[k].opened <= s /\ s < recs[k].at
                          \/ \E k \in OpenNow(v) : recs[k].at <= s
      BY <1>5, <1>6, <1>9, <2>2, HeldNext
    <3> QED
      BY <3>1, HeldIs
  <2> QED
    BY <2>1, <2>2
<1> QED
  BY <1>9, <1>10 DEF Told

-----------------------------------------------------------------------------
(* Lines.                                                                   *)

Kinds == {"gpu", "covered", "unpriced", "volume", "node"}

\* What a row of the node's costs.
NodeFare(r) == Cents(Price("node", r.rate) * MonthShare(r.from, r.to), Day * Scale * Cent)

\* A line, at the rate of each of its seconds unless the reservation pays.
LineFits(l) ==
  /\ l.kind = "node" => l.cents = NodeFare(l)
  /\ l.kind \in Kinds /\ l.from \in Nat /\ l.to \in Nat /\ l.from < l.to
  /\ l.kind # "covered" =>
       \A s \in Nat : Covers(l, s) => l.rate = InForce(s) /\ (l.kind = "unpriced" <=> InForce(s) = Never)

\* The lines L of u cover each second of [a, b) once, and nothing else.
Tiles(L, u, a, b) ==
  /\ \A l \in L : LineFits(l) /\ l.uid = u /\ a <= l.from /\ l.to <= b
  /\ \A s \in Nat : a <= s /\ s < b => \E l \in L : Covers(l, s)
  /\ \A l, m \in L, s \in Nat : Covers(l, s) /\ Covers(m, s) => l = m

\* L has a line f[g] of u for each segment g of [a, b).
Rendered(L, f, kind, u, a, b) ==
  /\ kind \in {"gpu", "volume", "node"}
  /\ \A g \in Segments(a, b) :
       /\ f[g] \in L
       /\ f[g].uid = u /\ f[g].from = g.from /\ f[g].to = g.to /\ f[g].rate = g.rate
       /\ f[g].kind = IF g.rate = Never THEN "unpriced" ELSE kind
       /\ f[g].kind = "node" => f[g].cents = NodeFare(f[g])
  /\ \A l \in L : \E g \in Segments(a, b) : l = f[g]

LEMMA SegmentsTile ==
  ASSUME rates \in SUBSET Nat, NEW a \in Nat, NEW b \in Nat, a < b,
         NEW L, NEW f, NEW kind, NEW u, Rendered(L, f, kind, u, a, b)
  PROVE  Tiles(L, u, a, b) /\ \A l \in L : l.kind # "covered"
<1>1. ASSUME NEW l \in L
      PROVE  LineFits(l) /\ l.uid = u /\ a <= l.from /\ l.to <= b /\ l.kind # "covered"
  <2>1. PICK g \in Segments(a, b) : l = f[g]
    BY DEF Rendered
  <2>2. /\ g.from \in Nat /\ g.to \in Nat /\ a <= g.from /\ g.from < g.to /\ g.to <= b
        /\ \A s \in Nat : Covers(g, s) => g.rate = InForce(s)
    BY SegmentIn
  <2>3. /\ l.uid = u /\ l.from = g.from /\ l.to = g.to /\ l.rate = g.rate
        /\ l.kind = IF g.rate = Never THEN "unpriced" ELSE kind
        /\ l.kind = "node" => l.cents = NodeFare(l)
    BY <2>1 DEF Rendered
  <2>4. \A s \in Nat : Covers(l, s) => l.rate = InForce(s)
    BY <2>2, <2>3 DEF Covers
  <2>5. l.kind \in Kinds /\ l.kind # "covered" /\ (l.kind = "unpriced" <=> l.rate = Never)
    BY <2>3 DEF Kinds, Rendered
  <2> QED
    BY <2>2, <2>3, <2>4, <2>5 DEF LineFits
<1>2. ASSUME NEW s \in Nat, a <= s, s < b PROVE \E l \in L : Covers(l, s)
  <2>1. PICK g \in Segments(a, b) : Covers(g, s)
    BY <1>2, SegmentAt
  <2>2. f[g] \in L /\ Covers(f[g], s)
    BY <2>1 DEF Covers, Rendered
  <2> QED
    BY <2>2
<1>3. ASSUME NEW l \in L, NEW m \in L, NEW s \in Nat, Covers(l, s), Covers(m, s) PROVE l = m
  <2>1. PICK g \in Segments(a, b) : l = f[g]
    BY DEF Rendered
  <2>2. PICK h \in Segments(a, b) : m = f[h]
    BY DEF Rendered
  <2>3. Covers(g, s) /\ Covers(h, s)
    BY <1>3, <2>1, <2>2 DEF Covers, Rendered
  <2>4. g = h
    BY <2>3, SegmentOnce
  <2> QED
    BY <2>1, <2>2, <2>4
<1> QED
  BY <1>1, <1>2, <1>3 DEF Tiles

\* The lines of one piece of a pod's interval.
LEMMA PieceTiled ==
  ASSUME rates \in SUBSET Nat, NEW u, NEW p, p[1] \in Nat, p[2] \in Nat, p[1] < p[2], NEW span
  PROVE  /\ Tiles(PieceLines(u, p, span), u, p[1], p[2])
         /\ \A l \in PieceLines(u, p, span) : l.kind = "covered" <=> Covered(u, p, span)
<1>1. CASE Covered(u, p, span)
  <2>1. PICK l : l = Line("covered", u, [from |-> p[1], to |-> p[2]], Never, p[2] - p[1])
    OBVIOUS
  <2>2. PieceLines(u, p, span) = {l}
    BY <1>1, <2>1 DEF PieceLines
  <2>3. l.kind = "covered" /\ l.uid = u /\ l.from = p[1] /\ l.to = p[2]
    BY <2>1 DEF Line
  <2>4. LineFits(l)
    BY <2>3 DEF LineFits, Kinds
  <2>5. Tiles({l}, u, p[1], p[2])
    BY <2>3, <2>4 DEF Tiles, Covers
  <2> QED
    BY <1>1, <2>2, <2>3, <2>5
<1>2. CASE ~Covered(u, p, span)
  <2>1. PICK f : f = [g \in Segments(p[1], p[2]) |->
                        Line(IF g.rate = Never THEN "unpriced" ELSE "gpu", u, g, g.rate,
                             IF g.rate = Never THEN g.to - g.from ELSE RoundedUp(g.to - g.from))]
    OBVIOUS
  <2>2. PieceLines(u, p, span) = {f[g] : g \in Segments(p[1], p[2])}
    BY <1>2, <2>1 DEF PieceLines
  <2>3. Rendered(PieceLines(u, p, span), f, "gpu", u, p[1], p[2])
    BY <2>1, <2>2 DEF Line, Rendered
  <2>4. /\ Tiles(PieceLines(u, p, span), u, p[1], p[2])
        /\ \A l \in PieceLines(u, p, span) : l.kind # "covered"
    BY <2>3, SegmentsTile
  <2> QED
    BY <1>2, <2>4
<1> QED
  BY <1>1, <1>2

-----------------------------------------------------------------------------
(* Intervals in a window.                                                   *)

Window(w0, w1) == w0 \in Nat /\ w1 \in Nat /\ w0 < w1

LEMMA ClipIs ==
  ASSUME NEW a \in Nat, NEW b \in Nat, NEW x \in Nat, NEW y \in Nat
  PROVE  /\ Clip(a, b, x, y).from \in Nat /\ Clip(a, b, x, y).to \in Nat
         /\ a <= Clip(a, b, x, y).from /\ x <= Clip(a, b, x, y).from
         /\ Clip(a, b, x, y).to <= b /\ Clip(a, b, x, y).to <= y
         /\ \A s \in Nat : Covers(Clip(a, b, x, y), s) <=> a <= s /\ s < b /\ x <= s /\ s < y
BY DEF Clip, Covers

LEMMA WindowedIs ==
  ASSUME RecsFit, NEW u \in Uids, NEW w0, NEW w1, Window(w0, w1), NEW i \in Windowed(u, w0, w1)
  PROVE  /\ i.from \in Nat /\ i.to \in Nat /\ w0 <= i.from /\ i.from < i.to /\ i.to <= w1
         /\ \E k \in Intervals(u) :
              /\ i = Clip(k.from, IF k.to = Never THEN w1 ELSE k.to, w0, w1)
              /\ \A s \in Nat : Covers(i, s) <=> In(k, s) /\ w0 <= s /\ s < w1
<1>0. Never \notin Nat /\ w0 \in Nat /\ w1 \in Nat
  BY DEF Never, Window
<1>1. PICK k \in Intervals(u) : i = Clip(k.from, IF k.to = Never THEN w1 ELSE k.to, w0, w1)
  BY DEF Windowed
<1>2. k.from \in Nat /\ (k.to # Never => k.to \in Nat)
  <2>1. \A c \in Closes(u) \cup OpenNow(u) : c \in DOMAIN recs
    BY DEF Closes, OpenNow, Opens
  <2> QED
    BY <2>1, IntervalIs, RecordsAre
<1>3. PICK y \in Nat : y = IF k.to = Never THEN w1 ELSE k.to
  BY <1>0, <1>2
<1>4. i = Clip(k.from, y, w0, w1)
  BY <1>1, <1>3
<1>5. i.from < i.to
  BY DEF Windowed
<1>6. /\ i.from \in Nat /\ i.to \in Nat /\ w0 <= i.from /\ i.to <= w1
      /\ \A s \in Nat : Covers(i, s) <=> k.from <= s /\ s < y /\ w0 <= s /\ s < w1
  BY <1>0, <1>2, <1>4, ClipIs
<1>7. \A s \in Nat : Covers(i, s) <=> In(k, s) /\ w0 <= s /\ s < w1
  BY <1>0, <1>3, <1>6 DEF In
<1> QED
  BY <1>1, <1>5, <1>6, <1>7

LEMMA WindowedAt ==
  ASSUME RecsFit, NEW u \in Uids, NEW w0, NEW w1, Window(w0, w1), NEW s \in Nat, w0 <= s, s < w1
  PROVE  Held(u, s) <=> \E i \in Windowed(u, w0, w1) : Covers(i, s)
<1>1. ASSUME Held(u, s) PROVE \E i \in Windowed(u, w0, w1) : Covers(i, s)
  <2>0. Never \notin Nat /\ w0 \in Nat /\ w1 \in Nat
    BY DEF Never, Window
  <2>1. PICK k \in Intervals(u) : In(k, s)
    BY <1>1 DEF Held, In
  <2>2. k.from \in Nat /\ (k.to # Never => k.to \in Nat)
    <3>1. \A c \in Closes(u) \cup OpenNow(u) : c \in DOMAIN recs
      BY DEF Closes, OpenNow, Opens
    <3> QED
      BY <3>1, IntervalIs, RecordsAre
  <2>3. PICK y \in Nat : y = IF k.to = Never THEN w1 ELSE k.to
    BY <2>0, <2>2
  <2>4. PICK i : i = Clip(k.from, y, w0, w1)
    OBVIOUS
  <2>5. i.from \in Nat /\ i.to \in Nat /\ Covers(i, s)
    BY <2>0, <2>1, <2>2, <2>3, <2>4, ClipIs DEF In
  <2>6. i.from < i.to
    BY <2>5 DEF Covers
  <2>7. i = Clip(k.from, IF k.to = Never THEN w1 ELSE k.to, w0, w1)
    BY <2>3, <2>4
  <2>8. i \in Windowed(u, w0, w1)
    BY <2>6, <2>7 DEF Windowed
  <2> QED
    BY <2>5, <2>8
<1>2. ASSUME NEW i \in Windowed(u, w0, w1), Covers(i, s) PROVE Held(u, s)
  BY <1>2, WindowedIs DEF Held, In
<1> QED
  BY <1>1, <1>2

LEMMA WindowedOnce ==
  ASSUME RecsFit, NEW u \in Uids, NEW w0, NEW w1, Window(w0, w1), NEW s \in Nat,
         NEW i \in Windowed(u, w0, w1), NEW j \in Windowed(u, w0, w1), Covers(i, s), Covers(j, s)
  PROVE  i = j
<1>1. PICK k \in Intervals(u) :
        i = Clip(k.from, IF k.to = Never THEN w1 ELSE k.to, w0, w1) /\ In(k, s)
  BY WindowedIs
<1>2. PICK m \in Intervals(u) :
        j = Clip(m.from, IF m.to = Never THEN w1 ELSE m.to, w0, w1) /\ In(m, s)
  BY WindowedIs
<1>3. k = m
  BY <1>1, <1>2, IntervalsApart
<1> QED
  BY <1>1, <1>2, <1>3

-----------------------------------------------------------------------------
(* A statement, uid by uid.                                                 *)

InputsFit == rates \in SUBSET Nat /\ reserved \in [from : Nat, to : Nat]

\* The reservation begins and ends at boundaries of C, when u is reserved.
Marked(u, i, span, C) ==
  u \in Reserved => \A v \in {span.from, span.to} : i.from < v /\ v < i.to => v \in C

\* A pod's interval is cut where the reservation begins and ends.
LEMMA SplitIs ==
  ASSUME NEW u, NEW i, i.from \in Nat, i.to \in Nat, i.from < i.to,
         NEW span, span.from \in Nat, span.to \in Nat
  PROVE  \E C : Split(u, i, span) = Pieces(C) /\ Bounds(C, i.from, i.to) /\ Marked(u, i, span, C)
<1> DEFINE V == IF u \in Reserved THEN {v \in {span.from, span.to} : i.from < v /\ v < i.to} ELSE {}
           C == {i.from, i.to} \cup V
<1>1. \A v \in V : v \in i.from..i.to
  OBVIOUS
<1>2. i.from \in i.from..i.to /\ i.to \in i.from..i.to
  OBVIOUS
<1>3. Marked(u, i, span, C)
  BY DEF Marked
<1>4. Split(u, i, span) = Pieces(C)
  BY DEF Split
<1> HIDE DEF V
<1>5. Bounds(C, i.from, i.to)
  BY <1>1, <1>2 DEF Bounds
<1> QED
  BY <1>3, <1>4, <1>5

LEMMA SpanIs ==
  ASSUME InputsFit, NEW w0, NEW w1, Window(w0, w1)
  PROVE  LET span == Span(w0, w1) IN
         /\ span.from \in Nat /\ span.to \in Nat /\ w0 <= span.from /\ span.to <= w1
<1>1. /\ reserved.from \in Nat /\ reserved.to \in Nat /\ w0 \in Nat /\ w1 \in Nat
  BY DEF InputsFit, Window
<1> QED
  BY <1>1, ClipIs DEF Span

LEMMA UidOf ==
  ASSUME NEW w0, NEW w1
  PROVE  /\ \A u, p, span : \A l \in PieceLines(u, p, span) : l.uid = u
         /\ \A l \in GpuLines(w0, w1) : l.uid \in Pods
         /\ \A l \in VolumeLines(w0, w1) : l.uid \in Volumes
         /\ \A l \in NodeLines(w0, w1) : l.uid = "node"
<1>1. ASSUME NEW u, NEW p, NEW span, NEW l \in PieceLines(u, p, span) PROVE l.uid = u
  <2>1. CASE Covered(u, p, span)
    BY <2>1 DEF PieceLines, Line
  <2>2. CASE ~Covered(u, p, span)
    BY <2>2 DEF PieceLines, Line
  <2> QED
    BY <2>1, <2>2
<1>2. ASSUME NEW l \in GpuLines(w0, w1) PROVE l.uid \in Pods
  <2>1. PICK u \in Pods : \E p : l \in PieceLines(u, p, Span(w0, w1))
    BY <1>2 DEF GpuLines
  <2> QED
    BY <1>1, <2>1
<1>3. ASSUME NEW l \in VolumeLines(w0, w1) PROVE l.uid \in Volumes
  BY <1>3 DEF VolumeLines, Line
<1>4. ASSUME NEW l \in NodeLines(w0, w1) PROVE l.uid = "node"
  BY <1>4 DEF NodeLines, Line
<1> QED
  BY <1>1, <1>2, <1>3, <1>4

LinesOf(u, w0, w1) == {l \in Statement(w0, w1) : l.uid = u}

\* What a statement owes u: the seconds it held something, or the reserved ones.
Owed(u, w0, w1, s) == IF u = "node" THEN Covers(Span(w0, w1), s) ELSE Held(u, s)

Sheet(u, w0, w1) ==
  /\ \A l \in LinesOf(u, w0, w1) : LineFits(l) /\ w0 <= l.from /\ l.to <= w1
  /\ \A s \in Nat : w0 <= s /\ s < w1 =>
       (Owed(u, w0, w1, s) <=> \E l \in LinesOf(u, w0, w1) : Covers(l, s))
  /\ \A l, m \in LinesOf(u, w0, w1), s \in Nat : Covers(l, s) /\ Covers(m, s) => l = m
  /\ \A l \in LinesOf(u, w0, w1), s \in Nat :
       u \in Reserved /\ Covers(l, s) => (l.kind = "covered" <=> Covers(Span(w0, w1), s))

LEMMA PodSheet ==
  ASSUME InvoiceConstants, RecsFit, InputsFit, NEW w0, NEW w1, Window(w0, w1), NEW u \in Pods
  PROVE  Sheet(u, w0, w1)
<1>0. PICK span : span = Span(w0, w1)
  OBVIOUS
<1>1. span.from \in Nat /\ span.to \in Nat /\ rates \in SUBSET Nat /\ u \in Uids /\ u # "node"
  BY <1>0, SpanIs DEF InputsFit, Uids, InvoiceConstants
<1>2. ASSUME NEW l
      PROVE  l \in LinesOf(u, w0, w1) <=>
               \E i \in Windowed(u, w0, w1) : \E p \in Split(u, i, span) : l \in PieceLines(u, p, span)
  <2>1. ASSUME l \in LinesOf(u, w0, w1)
        PROVE  \E i \in Windowed(u, w0, w1) : \E p \in Split(u, i, span) : l \in PieceLines(u, p, span)
    <3>1. l.uid = u /\ l \in GpuLines(w0, w1)
      BY <1>1, <2>1, UidOf DEF LinesOf, Statement, InvoiceConstants
    <3>2. PICK v \in Pods : \E p \in UNION {Split(v, i, span) : i \in Windowed(v, w0, w1)} : l \in PieceLines(v, p, span)
      BY <1>0, <3>1 DEF GpuLines
    <3>3. v = u
      BY <3>1, <3>2, UidOf
    <3> QED
      BY <3>2, <3>3
  <2>2. ASSUME NEW i \in Windowed(u, w0, w1), NEW p \in Split(u, i, span), l \in PieceLines(u, p, span)
        PROVE  l \in LinesOf(u, w0, w1)
    <3>1. l \in GpuLines(w0, w1)
      BY <1>0, <2>2 DEF GpuLines
    <3> QED
      BY <2>2, <3>1, UidOf DEF LinesOf, Statement
  <2> QED
    BY <2>1, <2>2
<1>3. ASSUME NEW i \in Windowed(u, w0, w1)
      PROVE  /\ i.from \in Nat /\ i.to \in Nat /\ w0 <= i.from /\ i.from < i.to /\ i.to <= w1
             /\ w0 \in Nat /\ w1 \in Nat
  BY <1>1, WindowedIs DEF Window
<1>4. ASSUME NEW i \in Windowed(u, w0, w1), NEW p \in Split(u, i, span)
      PROVE  /\ p[1] \in Nat /\ p[2] \in Nat /\ i.from <= p[1] /\ p[1] < p[2] /\ p[2] <= i.to
             /\ Tiles(PieceLines(u, p, span), u, p[1], p[2])
             /\ \A l \in PieceLines(u, p, span) : l.kind = "covered" <=> Covered(u, p, span)
             /\ u \in Reserved =>
                  \A s \in Nat : At(p, s) => (Covered(u, p, span) <=> Covers(span, s))
  <2>1. PICK C : Split(u, i, span) = Pieces(C) /\ Bounds(C, i.from, i.to) /\ Marked(u, i, span, C)
    BY <1>1, <1>3, SplitIs
  <2>2. /\ p[1] \in Nat /\ p[2] \in Nat /\ i.from <= p[1] /\ p[1] < p[2] /\ p[2] <= i.to
        /\ \A c \in C : c <= p[1] \/ p[2] <= c
    BY <2>1, PieceIn
  <2>3. /\ Tiles(PieceLines(u, p, span), u, p[1], p[2])
        /\ \A l \in PieceLines(u, p, span) : l.kind = "covered" <=> Covered(u, p, span)
    BY <1>1, <2>2, PieceTiled
  <2>4. ASSUME u \in Reserved, NEW s \in Nat, At(p, s)
        PROVE  Covered(u, p, span) <=> Covers(span, s)
    <3>1. ASSUME NEW v \in {span.from, span.to} PROVE v <= p[1] \/ p[2] <= v
      <4>1. CASE i.from < v /\ v < i.to
        BY <2>1, <2>2, <2>4, <4>1 DEF Marked
      <4>2. CASE ~(i.from < v /\ v < i.to)
        <5>1. v \in Nat /\ i.from \in Nat /\ i.to \in Nat
          BY <1>1, <1>3
        <5> QED
          BY <2>2, <4>2, <5>1
      <4> QED
        BY <4>1, <4>2
    <3>2. span.from <= p[1] \/ p[2] <= span.from
      BY <3>1
    <3>3. span.to <= p[1] \/ p[2] <= span.to
      BY <3>1
    <3> QED
      BY <1>1, <2>2, <2>4, <3>2, <3>3 DEF Covered, Covers, At
  <2> QED
    BY <2>2, <2>3, <2>4
<1>5. ASSUME NEW l \in LinesOf(u, w0, w1)
      PROVE  \E i \in Windowed(u, w0, w1) : \E p \in Split(u, i, span) :
               /\ l \in PieceLines(u, p, span) /\ LineFits(l)
               /\ p[1] <= l.from /\ l.to <= p[2] /\ i.from <= l.from /\ l.to <= i.to
               /\ w0 <= l.from /\ l.to <= w1
  <2>1. PICK i \in Windowed(u, w0, w1) : \E p \in Split(u, i, span) : l \in PieceLines(u, p, span)
    BY <1>2
  <2>2. PICK p \in Split(u, i, span) : l \in PieceLines(u, p, span)
    BY <2>1
  <2>3. LineFits(l) /\ p[1] <= l.from /\ l.to <= p[2]
    BY <1>4, <2>2 DEF Tiles
  <2>4. l.from \in Nat /\ l.to \in Nat
    BY <2>3 DEF LineFits
  <2>5. i.from <= l.from /\ l.to <= i.to /\ w0 <= l.from /\ l.to <= w1
    BY <1>3, <1>4, <2>3, <2>4
  <2> QED
    BY <2>2, <2>3, <2>5
<1>6. ASSUME NEW s \in Nat, w0 <= s, s < w1, Held(u, s)
      PROVE  \E l \in LinesOf(u, w0, w1) : Covers(l, s)
  <2>1. PICK i \in Windowed(u, w0, w1) : Covers(i, s)
    BY <1>1, <1>6, WindowedAt
  <2>2. PICK C : Split(u, i, span) = Pieces(C) /\ Bounds(C, i.from, i.to)
    BY <1>1, <1>3, SplitIs
  <2>3. PICK p \in Split(u, i, span) : At(p, s)
    BY <1>3, <2>1, <2>2, PieceAt DEF Covers
  <2>4. PICK l \in PieceLines(u, p, span) : Covers(l, s)
    BY <1>4, <2>3 DEF Tiles, At
  <2> QED
    BY <1>2, <2>3, <2>4
<1>7. ASSUME NEW s \in Nat, NEW l \in LinesOf(u, w0, w1), Covers(l, s), w0 <= s, s < w1
      PROVE  Held(u, s)
  <2>1. PICK i \in Windowed(u, w0, w1) : i.from <= l.from /\ l.to <= i.to /\ LineFits(l)
    BY <1>5
  <2>2. Covers(i, s)
    BY <1>3, <1>7, <2>1 DEF Covers, LineFits
  <2> QED
    BY <1>1, <1>7, <2>2, WindowedAt
<1>8. ASSUME NEW l \in LinesOf(u, w0, w1), NEW m \in LinesOf(u, w0, w1), NEW s \in Nat,
             Covers(l, s), Covers(m, s)
      PROVE  l = m
  <2>1. PICK i \in Windowed(u, w0, w1) : \E p \in Split(u, i, span) :
          /\ l \in PieceLines(u, p, span) /\ LineFits(l)
          /\ p[1] <= l.from /\ l.to <= p[2] /\ i.from <= l.from /\ l.to <= i.to
    BY <1>5
  <2>2. PICK p \in Split(u, i, span) :
          /\ l \in PieceLines(u, p, span) /\ LineFits(l)
          /\ p[1] <= l.from /\ l.to <= p[2] /\ i.from <= l.from /\ l.to <= i.to
    BY <2>1
  <2>3. PICK j \in Windowed(u, w0, w1) : \E q \in Split(u, j, span) :
          /\ m \in PieceLines(u, q, span) /\ LineFits(m)
          /\ q[1] <= m.from /\ m.to <= q[2] /\ j.from <= m.from /\ m.to <= j.to
    BY <1>5
  <2>4. PICK q \in Split(u, j, span) :
          /\ m \in PieceLines(u, q, span) /\ LineFits(m)
          /\ q[1] <= m.from /\ m.to <= q[2] /\ j.from <= m.from /\ m.to <= j.to
    BY <2>3
  <2>5. Covers(i, s) /\ Covers(j, s)
    <3>1. /\ i.from \in Nat /\ i.to \in Nat /\ j.from \in Nat /\ j.to \in Nat
          /\ l.from \in Nat /\ l.to \in Nat /\ m.from \in Nat /\ m.to \in Nat
      BY <1>3, <2>2, <2>4 DEF LineFits
    <3>2. l.from <= s /\ s < l.to /\ m.from <= s /\ s < m.to
      BY <1>8 DEF Covers
    <3> QED
      BY <2>2, <2>4, <3>1, <3>2 DEF Covers
  <2>6. i = j
    BY <1>1, <2>5, WindowedOnce
  <2>7. At(p, s) /\ At(q, s)
    BY <1>4, <1>8, <2>2, <2>4 DEF Covers, LineFits, At
  <2>8. p = q
    <3>1. PICK C : Split(u, i, span) = Pieces(C) /\ Bounds(C, i.from, i.to)
      BY <1>1, <1>3, SplitIs
    <3>2. p \in Pieces(C) /\ q \in Pieces(C)
      BY <2>2, <2>4, <2>6, <3>1
    <3> QED
      BY <2>7, <3>1, <3>2, PieceOnce
  <2>9. l \in PieceLines(u, p, span) /\ m \in PieceLines(u, p, span) /\ Tiles(PieceLines(u, p, span), u, p[1], p[2])
    BY <1>4, <2>2, <2>4, <2>8
  <2> QED
    BY <1>8, <2>9 DEF Tiles
<1>9. ASSUME NEW l \in LinesOf(u, w0, w1), NEW s \in Nat, u \in Reserved, Covers(l, s)
      PROVE  l.kind = "covered" <=> Covers(span, s)
  <2>1. PICK i \in Windowed(u, w0, w1) : \E p \in Split(u, i, span) :
          l \in PieceLines(u, p, span) /\ LineFits(l) /\ p[1] <= l.from /\ l.to <= p[2]
    BY <1>5
  <2>2. PICK p \in Split(u, i, span) :
          l \in PieceLines(u, p, span) /\ LineFits(l) /\ p[1] <= l.from /\ l.to <= p[2]
    BY <2>1
  <2>3. At(p, s)
    BY <1>4, <1>9, <2>2 DEF Covers, LineFits, At
  <2> QED
    BY <1>4, <1>9, <2>2, <2>3
<1> QED
  BY <1>0, <1>1, <1>5, <1>6, <1>7, <1>8, <1>9 DEF Sheet, Owed

LEMMA VolumeSheet ==
  ASSUME InvoiceConstants, RecsFit, InputsFit, NEW w0, NEW w1, Window(w0, w1), NEW u \in Volumes
  PROVE  Sheet(u, w0, w1)
<1>1. rates \in SUBSET Nat /\ u \in Uids /\ u # "node" /\ u \notin Pods /\ u \notin Reserved
  BY DEF InputsFit, Uids, InvoiceConstants
<1>2. PICK f : f = [g \in UNION {Segments(i.from, i.to) : i \in Windowed(u, w0, w1)} |->
                      Line(IF g.rate = Never THEN "unpriced" ELSE "volume", u, g, g.rate, g.to - g.from)]
  OBVIOUS
<1> DEFINE L(i) == {f[g] : g \in Segments(i.from, i.to)}
<1>3. ASSUME NEW l
      PROVE  l \in LinesOf(u, w0, w1) <=> \E i \in Windowed(u, w0, w1) : l \in L(i)
  <2>1. ASSUME l \in LinesOf(u, w0, w1) PROVE \E i \in Windowed(u, w0, w1) : l \in L(i)
    <3>1. l.uid = u /\ l \in VolumeLines(w0, w1)
      BY <1>1, <2>1, UidOf DEF LinesOf, Statement
    <3>2. PICK v \in Volumes : \E g \in UNION {Segments(i.from, i.to) : i \in Windowed(v, w0, w1)} :
            l = Line(IF g.rate = Never THEN "unpriced" ELSE "volume", v, g, g.rate, g.to - g.from)
      BY <3>1 DEF VolumeLines
    <3>3. v = u
      BY <3>1, <3>2 DEF Line
    <3> QED
      BY <1>2, <3>2, <3>3
  <2>2. ASSUME NEW i \in Windowed(u, w0, w1), NEW g \in Segments(i.from, i.to), l = f[g]
        PROVE  l \in LinesOf(u, w0, w1)
    <3>1. l = Line(IF g.rate = Never THEN "unpriced" ELSE "volume", u, g, g.rate, g.to - g.from)
      BY <1>2, <2>2
    <3>2. l \in VolumeLines(w0, w1)
      BY <2>2, <3>1 DEF VolumeLines
    <3> QED
      BY <3>1, <3>2 DEF LinesOf, Statement, Line
  <2> QED
    BY <2>1, <2>2
<1>4. ASSUME NEW i \in Windowed(u, w0, w1)
      PROVE  /\ i.from \in Nat /\ i.to \in Nat /\ w0 <= i.from /\ i.from < i.to /\ i.to <= w1
             /\ w0 \in Nat /\ w1 \in Nat
             /\ Tiles(L(i), u, i.from, i.to)
  <2>1. /\ i.from \in Nat /\ i.to \in Nat /\ w0 <= i.from /\ i.from < i.to /\ i.to <= w1
        /\ w0 \in Nat /\ w1 \in Nat
    BY <1>1, WindowedIs DEF Window
  <2>2. \A g \in Segments(i.from, i.to) :
          f[g] = Line(IF g.rate = Never THEN "unpriced" ELSE "volume", u, g, g.rate, g.to - g.from)
    BY <1>2
  <2>3. Rendered(L(i), f, "volume", u, i.from, i.to)
    <3>1. /\ \A g \in Segments(i.from, i.to) : f[g] \in L(i)
          /\ \A l \in L(i) : \E g \in Segments(i.from, i.to) : l = f[g]
      OBVIOUS
    <3>2. ASSUME NEW g \in Segments(i.from, i.to)
          PROVE  /\ f[g].uid = u /\ f[g].from = g.from /\ f[g].to = g.to /\ f[g].rate = g.rate
                 /\ f[g].kind = IF g.rate = Never THEN "unpriced" ELSE "volume"
      <4>1. PICK k : k = IF g.rate = Never THEN "unpriced" ELSE "volume"
        OBVIOUS
      <4>2. f[g] = Line(k, u, g, g.rate, g.to - g.from)
        BY <2>2, <4>1
      <4> HIDE DEF L
      <4> QED
        BY <4>1, <4>2 DEF Line
    <3> HIDE DEF L
    <3> QED
      BY <3>1, <3>2 DEF Rendered
  <2> HIDE DEF L
  <2> QED
    BY <1>1, <2>1, <2>3, SegmentsTile
<1> HIDE DEF L
<1>5. ASSUME NEW i \in Windowed(u, w0, w1), NEW l \in L(i)
      PROVE  /\ LineFits(l) /\ l.from \in Nat /\ l.to \in Nat /\ w0 <= l.from /\ l.to <= w1
             /\ i.from <= l.from /\ l.to <= i.to
  <2>1. LineFits(l) /\ i.from <= l.from /\ l.to <= i.to
    BY <1>4 DEF Tiles
  <2>2. l.from \in Nat /\ l.to \in Nat
    BY <2>1 DEF LineFits
  <2> QED
    BY <1>4, <2>1, <2>2
<1>6. ASSUME NEW l \in LinesOf(u, w0, w1) PROVE LineFits(l) /\ w0 <= l.from /\ l.to <= w1
  BY <1>3, <1>5
<1>7. ASSUME NEW s \in Nat, w0 <= s, s < w1, Held(u, s)
      PROVE  \E l \in LinesOf(u, w0, w1) : Covers(l, s)
  <2>1. PICK i \in Windowed(u, w0, w1) : Covers(i, s)
    BY <1>1, <1>7, WindowedAt
  <2>2. PICK l \in L(i) : Covers(l, s)
    BY <1>4, <2>1 DEF Tiles, Covers
  <2> QED
    BY <1>3, <2>2
<1>8. ASSUME NEW s \in Nat, NEW l \in LinesOf(u, w0, w1), Covers(l, s), w0 <= s, s < w1
      PROVE  Held(u, s)
  <2>1. PICK i \in Windowed(u, w0, w1) : l \in L(i)
    BY <1>3
  <2>2. Covers(i, s)
    BY <1>4, <1>5, <1>8, <2>1 DEF Covers
  <2> QED
    BY <1>1, <1>8, <2>2, WindowedAt
<1>9. ASSUME NEW l \in LinesOf(u, w0, w1), NEW m \in LinesOf(u, w0, w1), NEW s \in Nat,
             Covers(l, s), Covers(m, s)
      PROVE  l = m
  <2>1. PICK i \in Windowed(u, w0, w1) : l \in L(i)
    BY <1>3
  <2>2. PICK j \in Windowed(u, w0, w1) : m \in L(j)
    BY <1>3
  <2>3. Covers(i, s) /\ Covers(j, s)
    BY <1>4, <1>5, <1>9, <2>1, <2>2 DEF Covers
  <2>4. i = j
    BY <1>1, <2>3, WindowedOnce
  <2> QED
    BY <1>4, <1>9, <2>1, <2>2, <2>4 DEF Tiles
<1> QED
  BY <1>1, <1>6, <1>7, <1>8, <1>9 DEF Sheet, Owed

LEMMA NodeSheet ==
  ASSUME InvoiceConstants, InputsFit, NEW w0, NEW w1, Window(w0, w1)
  PROVE  Sheet("node", w0, w1)
<1>1. /\ rates \in SUBSET Nat /\ w0 \in Nat /\ w1 \in Nat
      /\ "node" \notin Pods /\ "node" \notin Volumes /\ "node" \notin Reserved
  BY DEF InputsFit, Uids, InvoiceConstants, Window
<1>2. PICK span : span = Span(w0, w1)
  OBVIOUS
<1>3. span.from \in Nat /\ span.to \in Nat /\ w0 <= span.from /\ span.to <= w1
  BY <1>2, SpanIs
<1>4. ASSUME NEW l PROVE l \in LinesOf("node", w0, w1) <=> l \in NodeLines(w0, w1)
  BY <1>1, UidOf DEF LinesOf, Statement
<1>5. CASE span.from >= span.to
  <2>1. NodeLines(w0, w1) = {}
    BY <1>2, <1>5 DEF NodeLines
  <2>2. \A s \in Nat : ~Covers(span, s)
    BY <1>3, <1>5 DEF Covers
  <2> QED
    BY <1>1, <1>2, <1>4, <2>1, <2>2 DEF Sheet, Owed
<1>6. CASE span.from < span.to
  <2>1. PICK f : f = [g \in Segments(span.from, span.to) |->
                       Line(IF g.rate = Never THEN "unpriced" ELSE "node", "node", g, g.rate, g.to - g.from)]
    OBVIOUS
  <2>2. ~(span.from >= span.to)
    BY <1>3, <1>6
  <2>3. NodeLines(w0, w1) = {f[g] : g \in Segments(span.from, span.to)}
    BY <1>2, <2>1, <2>2 DEF NodeLines
  <2>4. Rendered(NodeLines(w0, w1), f, "node", "node", span.from, span.to)
    BY <2>1, <2>3 DEF Rendered, Line, Amount, NodeFare
  <2>5. Tiles(NodeLines(w0, w1), "node", span.from, span.to)
    BY <1>1, <1>3, <1>6, <2>4, SegmentsTile
  <2>6. ASSUME NEW l \in NodeLines(w0, w1)
        PROVE  /\ LineFits(l) /\ l.from \in Nat /\ l.to \in Nat /\ w0 <= l.from /\ l.to <= w1
               /\ span.from <= l.from /\ l.to <= span.to
    <3>1. LineFits(l) /\ span.from <= l.from /\ l.to <= span.to
      BY <2>5 DEF Tiles
    <3>2. l.from \in Nat /\ l.to \in Nat
      BY <3>1 DEF LineFits
    <3> QED
      BY <1>1, <1>3, <3>1, <3>2
  <2>7. ASSUME NEW s \in Nat PROVE Covers(span, s) <=> \E l \in NodeLines(w0, w1) : Covers(l, s)
    <3>1. ASSUME Covers(span, s) PROVE \E l \in NodeLines(w0, w1) : Covers(l, s)
      BY <2>5, <3>1 DEF Tiles, Covers
    <3>2. ASSUME NEW l \in NodeLines(w0, w1), Covers(l, s) PROVE Covers(span, s)
      BY <1>3, <2>6, <3>2 DEF Covers
    <3> QED
      BY <3>1, <3>2
  <2>8. \A l, m \in NodeLines(w0, w1), s \in Nat : Covers(l, s) /\ Covers(m, s) => l = m
    BY <2>5 DEF Tiles
  <2> QED
    BY <1>1, <1>2, <1>4, <2>6, <2>7, <2>8 DEF Sheet, Owed
<1> QED
  BY <1>3, <1>5, <1>6

\* Every line of a statement is on the sheet of a uid or of the node.
LEMMA Sheets ==
  ASSUME InvoiceConstants, RecsFit, InputsFit, NEW w0, NEW w1, Window(w0, w1)
  PROVE  /\ \A u \in Uids \cup {"node"} : Sheet(u, w0, w1)
         /\ \A l \in Statement(w0, w1) :
              /\ l.uid \in Uids \cup {"node"} /\ LineFits(l) /\ w0 <= l.from /\ l.to <= w1
              /\ l \in LinesOf(l.uid, w0, w1)
<1>1. \A u \in Uids \cup {"node"} : Sheet(u, w0, w1)
  BY PodSheet, VolumeSheet, NodeSheet DEF Uids
<1>2. ASSUME NEW l \in Statement(w0, w1)
      PROVE  l.uid \in Uids \cup {"node"} /\ l \in LinesOf(l.uid, w0, w1)
  <2>1. l \in LinesOf(l.uid, w0, w1)
    BY DEF LinesOf
  <2>2. l \in GpuLines(w0, w1) \/ l \in VolumeLines(w0, w1) \/ l \in NodeLines(w0, w1)
    BY DEF Statement
  <2>3. l.uid \in Pods \/ l.uid \in Volumes \/ l.uid = "node"
    BY <2>2, UidOf
  <2> QED
    BY <2>1, <2>3 DEF Uids
<1>3. ASSUME NEW l \in Statement(w0, w1) PROVE LineFits(l) /\ w0 <= l.from /\ l.to <= w1
  <2>1. Sheet(l.uid, w0, w1) /\ l \in LinesOf(l.uid, w0, w1)
    BY <1>1, <1>2
  <2> QED
    BY <2>1 DEF Sheet
<1> QED
  BY <1>1, <1>2, <1>3

-----------------------------------------------------------------------------
(* The statements together.                                                 *)

BooksFit ==
  /\ now \in 0..Horizon /\ billedTo \in 0..now /\ late \subseteq Uids
  /\ rates \in RateCards /\ reserved \in Reservations

LinesFit ==
  \A l \in lines : LineFits(l) /\ l.uid \in Uids \cup {"node"} /\ l.to <= billedTo

LinesApart ==
  \A l, m \in lines, s \in Nat : l.uid = m.uid /\ Covers(l, s) /\ Covers(m, s) => l = m

\* What u has to pay for: all it ever held, the node all that was reserved.
Due(u, s) == IF u = "node" THEN Covers(reserved, s) ELSE Held(u, s)

AllBilled ==
  \A u \in (Uids \ late) \cup {"node"}, s \in Nat : s < billedTo =>
    (Due(u, s) <=> \E l \in lines : l.uid = u /\ Covers(l, s))

PaidApart ==
  \A l \in lines, s \in Nat :
    l.uid \in Reserved /\ Covers(l, s) => (l.kind = "covered" <=> Covers(reserved, s))

InvoiceInv == BooksFit /\ RecsFit /\ LinesFit /\ LinesApart /\ AllBilled /\ PaidApart

LEMMA BooksAre ==
  ASSUME InvoiceConstants, BooksFit
  PROVE  InputsFit /\ now \in Nat /\ billedTo \in Nat /\ reserved.from \in Nat /\ reserved.to \in Nat
<1>1. now \in Nat /\ billedTo \in Nat
  BY DEF BooksFit, InvoiceConstants
<1>2. InputsFit
  BY DEF BooksFit, InvoiceConstants, InputsFit
<1> QED
  BY <1>1, <1>2 DEF InputsFit

LEMMA InvoiceStarts == InvoiceConstants /\ Init => InvoiceInv
<1> SUFFICES ASSUME InvoiceConstants, Init PROVE InvoiceInv
  OBVIOUS
<1>1. BooksFit
  BY DEF Init, BooksFit, InvoiceConstants
<1>2. RecsFit
  <2>1. recs = <<>> /\ recs \in Seq(Records) /\ DOMAIN recs = {}
    BY DEF Init
  <2>2. \A u : Closes(u) = {} /\ OpenNow(u) = {}
    BY <2>1 DEF Closes, Opens, OpenNow
  <2> QED
    BY <2>1, <2>2 DEF RecsFit
<1>3. LinesFit /\ LinesApart /\ PaidApart
  BY DEF Init, LinesFit, LinesApart, PaidApart
<1>4. AllBilled
  BY DEF Init, AllBilled
<1> QED
  BY <1>1, <1>2, <1>3, <1>4 DEF InvoiceInv

\* A step that issues nothing leaves the lines as they were.
LEMMA LinesKept ==
  ASSUME LinesFit, LinesApart, PaidApart, UNCHANGED <<inputs, billedTo, lines>>
  PROVE  LinesFit' /\ LinesApart' /\ PaidApart'
<1>1. rates' = rates /\ reserved' = reserved /\ billedTo' = billedTo /\ lines' = lines
  BY DEF inputs
<1>2. \A x : InForce(x)' = InForce(x)
  BY <1>1 DEF InForce
<1>3. LinesFit'
  BY <1>1, <1>2 DEF LinesFit, LineFits
<1>4. LinesApart'
  BY <1>1 DEF LinesApart
<1>5. PaidApart'
  BY <1>1 DEF PaidApart, Covers
<1> QED
  BY <1>3, <1>4, <1>5

\* A record the statements missed makes its uid late, any other is of later
\* seconds than they bill.
LEMMA BilledStays ==
  ASSUME InvoiceConstants, InvoiceInv, NEW u \in Uids, NEW at \in Nat, Told(u, at), Missed(u, at),
         UNCHANGED <<inputs, billedTo, lines>>
  PROVE  AllBilled'
<1>1. reserved' = reserved /\ billedTo' = billedTo /\ lines' = lines /\ billedTo \in Nat
  BY BooksAre DEF inputs, InvoiceInv
<1>2. ASSUME NEW v \in (Uids \ late') \cup {"node"}, NEW s \in Nat, s < billedTo
      PROVE  Due(v, s)' <=> \E l \in lines : l.uid = v /\ Covers(l, s)
  <2>1. v \in (Uids \ late) \cup {"node"} /\ (v = u => v = "node" \/ ~(at < billedTo))
    BY <1>2 DEF Missed
  <2>2. Due(v, s)' <=> Due(v, s)
    <3>1. CASE v = "node"
      BY <1>1, <3>1 DEF Due, Covers
    <3>2. CASE v # "node"
      <4>1. v \in Uids /\ (v = u => s < at)
        BY <1>1, <1>2, <2>1, <3>2
      <4>2. Held(v, s)' <=> Held(v, s)
        BY <4>1 DEF Told
      <4> QED
        BY <3>2, <4>2 DEF Due
    <3> QED
      BY <3>1, <3>2
  <2> QED
    BY <1>2, <2>1, <2>2 DEF InvoiceInv, AllBilled
<1> QED
  BY <1>1, <1>2 DEF AllBilled, Covers

LEMMA MeterStep ==
  ASSUME InvoiceConstants, InvoiceInv, NEW u \in Uids, NEW at \in 0..Horizon,
         RecordOpen(u, at) \/ RecordClose(u, at)
  PROVE  InvoiceInv'
<1>1. at \in Nat
  BY DEF InvoiceConstants
<1>2. RecsFit' /\ Told(u, at)
  BY <1>1, OpenGrows, CloseGrows DEF InvoiceInv
<1>3. Missed(u, at) /\ UNCHANGED <<now, inputs, billedTo, lines>>
  BY DEF RecordOpen, RecordClose
<1>4. BooksFit'
  BY <1>3 DEF InvoiceInv, BooksFit, Missed, inputs
<1>5. LinesFit' /\ LinesApart' /\ PaidApart'
  BY <1>3, LinesKept DEF InvoiceInv
<1>6. AllBilled'
  BY <1>1, <1>2, <1>3, BilledStays
<1> QED
  BY <1>2, <1>4, <1>5, <1>6 DEF InvoiceInv

LEMMA StatementStep ==
  ASSUME InvoiceConstants, InvoiceInv, NEW w1 \in 1..Horizon, Issue(w1)
  PROVE  InvoiceInv'
<1>1. PICK w0 : w0 = billedTo
  OBVIOUS
<1>2. PICK new : new = Statement(w0, w1)
  OBVIOUS
<1>3. /\ lines' = lines \cup new /\ billedTo' = w1 /\ w0 < w1 /\ w1 <= now
      /\ now' = now /\ recs' = recs /\ late' = late /\ rates' = rates /\ reserved' = reserved
  BY <1>1, <1>2 DEF Issue, inputs
<1>4. InputsFit /\ w0 \in Nat /\ w1 \in Nat /\ reserved.from \in Nat /\ reserved.to \in Nat /\ now \in Nat
  BY <1>1, BooksAre DEF InvoiceInv, InvoiceConstants
<1>5. Window(w0, w1)
  BY <1>3, <1>4 DEF Window
<1>6. /\ \A u \in Uids \cup {"node"} : Sheet(u, w0, w1)
      /\ \A l \in new : /\ l.uid \in Uids \cup {"node"} /\ LineFits(l) /\ w0 <= l.from /\ l.to <= w1
                        /\ l \in LinesOf(l.uid, w0, w1)
  BY <1>2, <1>4, <1>5, Sheets DEF InvoiceInv
<1>7. \A l \in lines : LineFits(l) /\ l.uid \in Uids \cup {"node"} /\ l.to <= w0
  BY <1>1 DEF InvoiceInv, LinesFit
<1>8. /\ \A l \in lines, s \in Nat : Covers(l, s) => s < w0
      /\ \A l \in new, s \in Nat : Covers(l, s) => w0 <= s /\ s < w1
  BY <1>4, <1>6, <1>7 DEF LineFits, Covers
<1>9. \A u : \A l : l \in LinesOf(u, w0, w1) <=> l \in new /\ l.uid = u
  BY <1>2 DEF LinesOf
<1>10. \A s \in Nat : w0 <= s /\ s < w1 => (Covers(Span(w0, w1), s) <=> Covers(reserved, s))
  BY <1>4, ClipIs DEF Span, Covers
<1>11. BooksFit'
  BY <1>3, <1>4 DEF InvoiceInv, BooksFit
<1>12. RecsFit'
  BY <1>3 DEF InvoiceInv, RecsFit, OpenNow, Opens, Closes
<1>13. LinesFit'
  <2>1. \A x : InForce(x)' = InForce(x)
    BY <1>3 DEF InForce
  <2>2. \A l \in lines \cup new : LineFits(l) /\ l.uid \in Uids \cup {"node"} /\ l.to <= w1
    <3>1. ASSUME NEW l \in lines PROVE l.to <= w1
      BY <1>3, <1>4, <1>7 DEF LineFits
    <3> QED
      BY <1>6, <1>7, <3>1
  <2>3. \A l : LineFits(l)' <=> LineFits(l)
    BY <2>1 DEF LineFits, Covers
  <2> QED
    BY <1>3, <2>2, <2>3 DEF LinesFit
<1>14. LinesApart'
  <2> SUFFICES ASSUME NEW l \in lines \cup new, NEW m \in lines \cup new, NEW s \in Nat,
                      l.uid = m.uid, Covers(l, s), Covers(m, s)
               PROVE  l = m
    BY <1>3 DEF LinesApart, Covers
  <2>1. CASE l \in lines /\ m \in lines
    BY <2>1 DEF InvoiceInv, LinesApart
  <2>2. CASE l \in new /\ m \in new
    <3>1. Sheet(l.uid, w0, w1) /\ l \in LinesOf(l.uid, w0, w1) /\ m \in LinesOf(l.uid, w0, w1)
      BY <1>6, <2>2
    <3> QED
      BY <3>1 DEF Sheet
  <2>3. CASE ~(l \in lines /\ m \in lines) /\ ~(l \in new /\ m \in new)
    BY <1>4, <1>8, <2>3
  <2> QED
    BY <2>1, <2>2, <2>3
<1>15. AllBilled'
  <2>1. ASSUME NEW u \in (Uids \ late) \cup {"node"}, NEW s \in Nat, s < w1
        PROVE  Due(u, s) <=> \E l \in lines \cup new : l.uid = u /\ Covers(l, s)
    <3>1. CASE s < w0
      BY <1>1, <1>4, <1>8, <2>1, <3>1 DEF InvoiceInv, AllBilled
    <3>2. CASE w0 <= s
      <4>1. Sheet(u, w0, w1)
        BY <1>6, <2>1
      <4>2. Owed(u, w0, w1, s) <=> \E l \in LinesOf(u, w0, w1) : Covers(l, s)
        BY <2>1, <3>2, <4>1 DEF Sheet
      <4>3. Owed(u, w0, w1, s) <=> Due(u, s)
        BY <1>10, <2>1, <3>2 DEF Owed, Due
      <4> QED
        BY <1>4, <1>8, <1>9, <3>2, <4>2, <4>3
    <3> QED
      BY <1>4, <3>1, <3>2
  <2>2. \A u, s : Held(u, s)' <=> Held(u, s)
    BY <1>3 DEF Held, Intervals, OpenNow, Opens, Closes
  <2>3. \A u, s : Due(u, s)' <=> Due(u, s)
    BY <1>3, <2>2 DEF Due, Covers
  <2> QED
    BY <1>3, <2>1, <2>3 DEF AllBilled, Covers
<1>16. PaidApart'
  <2>1. ASSUME NEW l \in lines \cup new, NEW s \in Nat, l.uid \in Reserved, Covers(l, s)
        PROVE  l.kind = "covered" <=> Covers(reserved, s)
    <3>1. CASE l \in lines
      BY <2>1, <3>1 DEF InvoiceInv, PaidApart
    <3>2. CASE l \in new
      <4>1. Sheet(l.uid, w0, w1) /\ l \in LinesOf(l.uid, w0, w1)
        BY <1>6, <3>2
      <4>2. l.kind = "covered" <=> Covers(Span(w0, w1), s)
        BY <2>1, <4>1 DEF Sheet
      <4> QED
        BY <1>8, <1>10, <2>1, <3>2, <4>2
    <3> QED
      BY <2>1, <3>1, <3>2
  <2> QED
    BY <1>3, <2>1 DEF PaidApart, Covers
<1> QED
  BY <1>11, <1>12, <1>13, <1>14, <1>15, <1>16 DEF InvoiceInv

LEMMA InvoiceSteps == InvoiceConstants /\ InvoiceInv /\ [Next]_vars => InvoiceInv'
<1> SUFFICES ASSUME InvoiceConstants, InvoiceInv, [Next]_vars PROVE InvoiceInv'
  OBVIOUS
<1>1. ASSUME UNCHANGED <<recs, inputs, billedTo, lines, late>>, now' \in 0..Horizon, now <= now'
      PROVE  InvoiceInv'
  <2>1. rates' = rates /\ reserved' = reserved /\ billedTo \in Nat /\ now \in Nat /\ now' \in Nat
    BY <1>1, BooksAre DEF inputs, InvoiceInv, InvoiceConstants
  <2>2. BooksFit'
    BY <1>1, <2>1 DEF InvoiceInv, BooksFit
  <2>3. RecsFit'
    BY <1>1 DEF InvoiceInv, RecsFit, OpenNow, Opens, Closes
  <2>4. LinesFit' /\ LinesApart' /\ PaidApart'
    BY <1>1, LinesKept DEF InvoiceInv
  <2>5. \A u, s : Due(u, s)' <=> Due(u, s)
    BY <1>1, <2>1 DEF Due, Covers, Held, Intervals, OpenNow, Opens, Closes
  <2>6. AllBilled'
    BY <1>1, <2>5 DEF InvoiceInv, AllBilled, Covers
  <2> QED
    BY <2>2, <2>3, <2>4, <2>6 DEF InvoiceInv
<1>2. CASE TimePasses
  <2>1. now' \in 0..Horizon /\ now <= now'
    BY <1>2 DEF TimePasses, InvoiceInv, BooksFit, InvoiceConstants
  <2> QED
    BY <1>1, <1>2, <2>1 DEF TimePasses
<1>3. CASE \E w1 \in 1..Horizon : Issue(w1)
  BY <1>3, StatementStep
<1>4. CASE \E u \in Uids, at \in 0..Horizon : RecordOpen(u, at) \/ RecordClose(u, at)
  BY <1>4, MeterStep
<1>5. CASE UNCHANGED vars
  <2>1. UNCHANGED <<recs, inputs, billedTo, lines, late>> /\ now' = now
    BY <1>5 DEF vars
  <2>2. now' \in 0..Horizon /\ now <= now'
    BY <2>1, BooksAre DEF InvoiceInv, BooksFit
  <2> QED
    BY <1>1, <2>1, <2>2
<1> QED
  BY <1>2, <1>3, <1>4, <1>5 DEF Next

LEMMA Invoiced == Spec => []InvoiceInv
<1>1. Init => InvoiceInv
  BY InvoiceStarts, InvoiceConstants
<1>2. InvoiceInv /\ [Next]_vars => InvoiceInv'
  BY InvoiceSteps, InvoiceConstants
<1> QED
  BY <1>1, <1>2, PTL DEF Spec

-----------------------------------------------------------------------------
(* Days and months.                                                         *)

LEMMA Days ==
  ASSUME InvoiceConstants
  PROVE  /\ \A d \in Int : d * Day \in Int /\ d * Day = Day * d /\ (d + 1) * Day = d * Day + Day
         /\ \A d, e \in Int : d < e => (d + 1) * Day <= e * Day
         /\ \A s \in Nat : LET d == s \div Day IN d \in Nat /\ d * Day <= s /\ s < (d + 1) * Day
<1>0. Day \in Nat /\ Day > 0
  BY DEF InvoiceConstants
<1>1. ASSUME NEW d \in Int, NEW e \in Int, d < e PROVE (d + 1) * Day <= e * Day
  <2>1. PICK k \in Nat : e = d + 1 + k
    <3>1. e - d - 1 \in Nat /\ e = d + 1 + (e - d - 1)
      BY <1>1
    <3> QED
      BY <3>1
  <2>2. k * Day >= 0 /\ e * Day = (d + 1) * Day + k * Day
    BY <1>0, <2>1
  <2> QED
    BY <1>0, <2>2
<1>2. ASSUME NEW s \in Nat
      PROVE  LET d == s \div Day IN d \in Nat /\ d * Day <= s /\ s < (d + 1) * Day
  BY <1>0
<1>3. \A d \in Int : d * Day \in Int /\ d * Day = Day * d /\ (d + 1) * Day = d * Day + Day
  BY <1>0
<1> QED
  BY <1>1, <1>2, <1>3

\* The UTC days that [a, b) overlaps cut it up.
LEMMA DaysPart ==
  ASSUME InvoiceConstants, NEW a \in Nat, NEW b \in Nat, a < b, b <= Horizon
  PROVE  LET part == DayIter(a, b) IN
         /\ IsFiniteSet(DOMAIN part)
         /\ \A d \in DOMAIN part : d \in Nat /\ d * Day < b /\ a < (d + 1) * Day
         /\ Parted(DOMAIN part, [d \in DOMAIN part |-> part[d].from], [d \in DOMAIN part |-> part[d].to], a, b)
<1>0. Day \in Nat /\ Day > 0 /\ Horizon \in Nat
  BY DEF InvoiceConstants
<1>1. PICK q \in Nat : q = Horizon \div Day /\ Horizon < (q + 1) * Day
  BY <1>0, Days
<1>2. PICK D : D = {d \in 0..q : d * Day < b /\ a < (d + 1) * Day}
  OBVIOUS
<1>3. PICK part : part = DayIter(a, b)
  OBVIOUS
<1>4. DOMAIN part = D /\ \A d \in D : part[d] = Clip(a, b, d * Day, (d + 1) * Day)
  BY <1>1, <1>2, <1>3 DEF DayIter
<1>5. IsFiniteSet(D)
  <2>1. IsFiniteSet(0..q) /\ D \subseteq 0..q
    BY <1>2, FS_Interval
  <2> QED
    BY <2>1, FS_Subset
<1>6. \A d \in D : d \in Nat /\ d * Day < b /\ a < (d + 1) * Day /\ d * Day \in Nat /\ (d + 1) * Day \in Nat
               /\ d * Day < (d + 1) * Day
  BY <1>0, <1>2
<1>7. ASSUME NEW d \in D
      PROVE  /\ part[d].from \in Nat /\ part[d].to \in Nat
             /\ a <= part[d].from /\ part[d].from < part[d].to /\ part[d].to <= b
             /\ \A s \in Int : part[d].from <= s /\ s < part[d].to
                  <=> a <= s /\ s < b /\ d * Day <= s /\ s < (d + 1) * Day
  <2>1. PICK x, y \in Nat : x = d * Day /\ y = (d + 1) * Day /\ x < b /\ a < y /\ x < y
    BY <1>6
  <2>2. part[d] = Clip(a, b, x, y)
    BY <1>4, <2>1
  <2> QED
    BY <2>1, <2>2 DEF Clip
<1>8. ASSUME NEW s \in Int, a <= s, s < b PROVE \E d \in D : part[d].from <= s /\ s < part[d].to
  <2>1. s \in Nat
    BY <1>8
  <2>2. PICK d \in Nat : d * Day <= s /\ s < (d + 1) * Day
    BY <2>1, Days
  <2>3. d <= q
    <3>1. ASSUME q < d PROVE FALSE
      <4>1. (q + 1) * Day <= d * Day
        BY <3>1, Days
      <4>2. (q + 1) * Day \in Int /\ d * Day \in Int
        BY <1>0
      <4> QED
        BY <1>0, <1>1, <1>8, <2>2, <4>1, <4>2
    <3> QED
      BY <3>1
  <2>4. d * Day < b /\ a < (d + 1) * Day
    <3>1. (d + 1) * Day \in Int /\ d * Day \in Int
      BY <1>0
    <3> QED
      BY <1>8, <2>2, <3>1
  <2>5. d \in D
    BY <1>2, <2>3, <2>4
  <2> QED
    BY <1>7, <1>8, <2>2, <2>5
<1>9. ASSUME NEW d \in D, NEW e \in D, NEW s \in Int, d < e,
             part[d].from <= s, s < part[d].to, part[e].from <= s, s < part[e].to
      PROVE  FALSE
  <2>1. s < (d + 1) * Day /\ e * Day <= s
    BY <1>7, <1>9
  <2>2. (d + 1) * Day <= e * Day
    <3>1. d + 1 \in Int /\ e \in Int /\ d + 1 <= e
      BY <1>6, <1>9
    <3> QED
      BY ONLY <3>1, InvoiceConstants, Days
  <2>3. (d + 1) * Day \in Int /\ e * Day \in Int
    BY <1>6
  <2> QED
    BY <2>1, <2>2, <2>3
<1>10. ASSUME NEW d \in D, NEW e \in D, NEW s \in Int,
              part[d].from <= s, s < part[d].to, part[e].from <= s, s < part[e].to
       PROVE  d = e
  <2>1. ~(d < e) /\ ~(e < d)
    BY <1>9, <1>10
  <2>2. d \in Nat /\ e \in Nat
    BY <1>6
  <2> QED
    BY <2>1, <2>2
<1>11. Parted(D, [d \in D |-> part[d].from], [d \in D |-> part[d].to], a, b)
  <2>1. PICK lo, hi : lo = [d \in D |-> part[d].from] /\ hi = [d \in D |-> part[d].to]
    OBVIOUS
  <2>2. \A d \in D : lo[d] = part[d].from /\ hi[d] = part[d].to
    BY <2>1
  <2>3. a \in Int /\ b \in Int /\ a <= b
    OBVIOUS
  <2>4. Parted(D, lo, hi, a, b)
    BY ONLY <1>7, <1>8, <1>10, <2>2, <2>3 DEF Parted
  <2> QED
    BY ONLY <2>1, <2>4
<1> QED
  BY <1>3, <1>4, <1>5, <1>6, <1>11

\* A month begins where the one before it ends.
LEMMA NextMonth ==
  ASSUME InvoiceConstants, NEW m \in DOMAIN DaysIn
  PROVE  /\ m \in Nat /\ m > 0 /\ DaysIn[m] \in Nat /\ DaysIn[m] > 0 /\ FirstDay(m) \in Int
         /\ FirstDay(m + 1) = FirstDay(m) + DaysIn[m]
<1>1. DaysIn \in Seq(Nat \ {0})
  BY DEF InvoiceConstants
<1>2. m \in Nat /\ m > 0 /\ m <= Len(DaysIn) /\ Len(DaysIn) \in Nat
  BY <1>1
<1>3. \A i \in 1..m : DaysIn[i] \in Nat /\ DaysIn[i] > 0
  BY <1>1, <1>2
<1>4. PICK S : S = 1..m
  OBVIOUS
<1>5. IsFiniteSet(S) /\ m \in S /\ S \ {m} = 1..(m - 1) /\ S = 1..((m + 1) - 1)
  <2>1. 1 \in Int /\ m \in Int
    BY <1>2
  <2>2. IsFiniteSet(1..m)
    BY ONLY <2>1, FS_Interval
  <2> QED
    BY <1>2, <1>4, <2>2
<1>6. \A i \in S : DaysIn[i] \in Int
  BY <1>3, <1>4
<1>7. SumFunctionOnSet(DaysIn, S \ {m}) \in Int /\ SumFunctionOnSet(DaysIn, S) = DaysIn[m] + SumFunctionOnSet(DaysIn, S \ {m})
  <2>1. PICK f : f = DaysIn
    OBVIOUS
  <2>2. \A i \in S : f[i] \in Int
    BY <1>6, <2>1
  <2>3. IsFiniteSet(S) /\ m \in S
    BY <1>5
  <2>4. SumFunctionOnSet(f, S \ {m}) \in Int /\ SumFunctionOnSet(f, S) = f[m] + SumFunctionOnSet(f, S \ {m})
    BY ONLY <2>2, <2>3, SumWithout
  <2> QED
    BY <2>1, <2>4
<1>8. FirstDay(m) = SumFunctionOnSet(DaysIn, S \ {m}) /\ FirstDay(m + 1) = SumFunctionOnSet(DaysIn, S)
  BY <1>5 DEF FirstDay
<1>9. DaysIn[m] \in Nat /\ DaysIn[m] > 0
  BY <1>2, <1>3
<1> QED
  BY <1>2, <1>7, <1>8, <1>9

LEMMA MonthsApart ==
  ASSUME InvoiceConstants, NEW m \in DOMAIN DaysIn, NEW n \in DOMAIN DaysIn, m < n
  PROVE  FirstDay(m) + DaysIn[m] <= FirstDay(n)
<1>1. PICK k \in Nat : k = Len(DaysIn) /\ DOMAIN DaysIn = 1..k
  BY DEF InvoiceConstants
<1> DEFINE B == {i \in 1..k : m < i /\ ~(FirstDay(m) + DaysIn[m] <= FirstDay(i))}
<1>2. SUFFICES ASSUME B # {} PROVE FALSE
  BY <1>1
<1>3. PICK i \in B : \A j \in B : i <= j
  <2>1. B \in SUBSET (0..k)
    BY <1>1
  <2> HIDE DEF B
  <2> QED
    BY <1>2, <2>1, Smallest
<1>4. m \in Nat /\ m > 0 /\ i \in Nat /\ m < i
  BY <1>1
<1>5. i - 1 \in DOMAIN DaysIn /\ i \in DOMAIN DaysIn /\ (i - 1) + 1 = i
  BY <1>1, <1>4
<1>6. /\ FirstDay(i) = FirstDay(i - 1) + DaysIn[i - 1] /\ FirstDay(i - 1) \in Int /\ FirstDay(i) \in Int
      /\ DaysIn[i - 1] \in Nat /\ FirstDay(m) \in Int /\ DaysIn[m] \in Nat
  BY <1>5, NextMonth
<1>7. CASE m = i - 1
  BY <1>6, <1>7
<1>8. CASE m # i - 1
  <2>1. i - 1 \notin B /\ m < i - 1 /\ i - 1 \in 1..k
    BY <1>1, <1>3, <1>4, <1>5, <1>8
  <2>2. FirstDay(m) + DaysIn[m] <= FirstDay(i - 1)
    BY <2>1
  <2>3. ~(FirstDay(m) + DaysIn[m] <= FirstDay(i))
    OBVIOUS
  <2> QED
    BY ONLY <1>6, <2>2, <2>3
<1> QED
  BY <1>7, <1>8

LEMMA MonthOfDay ==
  ASSUME InvoiceConstants, NEW m \in DOMAIN DaysIn, NEW d \in Int,
         FirstDay(m) <= d, d < FirstDay(m) + DaysIn[m]
  PROVE  MonthLength(d) = DaysIn[m]
<1>1. PICK n : n = CHOOSE i \in DOMAIN DaysIn : FirstDay(i) <= d /\ d < FirstDay(i) + DaysIn[i]
  OBVIOUS
<1>2. n \in DOMAIN DaysIn /\ FirstDay(n) <= d /\ d < FirstDay(n) + DaysIn[n]
  BY <1>1
<1>3. /\ m \in Nat /\ n \in Nat /\ FirstDay(m) \in Int /\ FirstDay(n) \in Int
      /\ DaysIn[m] \in Nat /\ DaysIn[n] \in Nat
  BY <1>2, NextMonth
<1>4. ASSUME m < n PROVE FALSE
  <2>1. FirstDay(m) + DaysIn[m] <= FirstDay(n)
    BY <1>2, <1>4, MonthsApart
  <2> QED
    BY <1>2, <1>3, <2>1
<1>5. ASSUME n < m PROVE FALSE
  <2>1. FirstDay(n) + DaysIn[n] <= FirstDay(m)
    BY <1>2, <1>5, MonthsApart
  <2> QED
    BY <1>2, <1>3, <2>1
<1>6. m = n
  <2>1. ~(m < n) /\ ~(n < m)
    BY <1>4, <1>5
  <2> QED
    BY <1>3, <2>1
<1> QED
  BY <1>1, <1>6 DEF MonthLength

\* Inside a month every second has the same share of the price.
LEMMA ShareIs ==
  ASSUME InvoiceConstants, NEW m \in DOMAIN DaysIn, NEW a \in Nat, NEW b \in Nat, a < b, b <= Horizon,
         Day * FirstDay(m) <= a, b <= Day * FirstDay(m) + Day * DaysIn[m]
  PROVE  MonthShare(a, b) = (Scale \div DaysIn[m]) * (b - a)
<1>1. PICK part : part = DayIter(a, b)
  OBVIOUS
<1>2. PICK D, lo, hi : /\ D = DOMAIN part
                       /\ lo = [d \in D |-> part[d].from] /\ hi = [d \in D |-> part[d].to]
  OBVIOUS
<1>3. IsFiniteSet(D) /\ Parted(D, lo, hi, a, b) /\ \A d \in D : d \in Nat /\ d * Day < b /\ a < (d + 1) * Day
  BY <1>1, <1>2, DaysPart
<1>4. PICK K : K = Scale \div DaysIn[m]
  OBVIOUS
<1>5. /\ K \in Int /\ Day \in Nat /\ Day > 0 /\ DaysIn[m] \in Nat /\ FirstDay(m) \in Int
  <2>1. /\ DaysIn[m] \in Nat /\ DaysIn[m] > 0 /\ FirstDay(m) \in Int
    BY ONLY InvoiceConstants, m \in DOMAIN DaysIn, NextMonth
  <2>2. Scale \in Nat /\ Day \in Nat /\ Day > 0
    BY ONLY InvoiceConstants DEF InvoiceConstants
  <2> QED
    BY ONLY <1>4, <2>1, <2>2
<1>6. ASSUME NEW d \in D PROVE MonthLength(d) = DaysIn[m]
  <2>1. PICK x, y \in Int : x = FirstDay(m) /\ y = FirstDay(m) + DaysIn[m]
    BY <1>5
  <2>2. d \in Int /\ x * Day < (d + 1) * Day /\ d * Day < y * Day
    <3>1. x * Day = Day * FirstDay(m) /\ y * Day = Day * FirstDay(m) + Day * DaysIn[m]
      <4>1. \A p, q \in Int : (p + q) * Day = Day * p + Day * q /\ p * Day = Day * p
        BY <1>5
      <4>2. DaysIn[m] \in Int
        BY <1>5
      <4> QED
        BY <1>5, <2>1, <4>1, <4>2
    <3>2. d \in Int /\ d * Day < b /\ a < (d + 1) * Day
      BY <1>3, <1>6
    <3>3. d * Day \in Int /\ (d + 1) * Day \in Int /\ x * Day \in Int /\ y * Day \in Int
      <4>1. d + 1 \in Int
        BY <3>2
      <4> QED
        BY <2>1, <3>2, <4>1, Days
    <3>4. x * Day <= a /\ b <= y * Day
      BY <3>1
    <3> HIDE DEF InvoiceConstants
    <3> QED
      BY <3>2, <3>3, <3>4
  <2>3. ~(d < x)
    <3>1. ASSUME d < x PROVE FALSE
      <4>1. (d + 1) * Day <= x * Day
        BY <2>1, <2>2, <3>1, Days
      <4>2. (d + 1) * Day \in Int /\ x * Day \in Int
        BY <1>5, <2>1, <2>2
      <4> QED
        BY <2>2, <4>1, <4>2
    <3> QED
      BY <3>1
  <2>4. ~(y <= d)
    <3>1. ASSUME y <= d PROVE FALSE
      <4>1. y * Day <= d * Day
        <5>1. CASE y = d
          BY <1>5, <2>1, <5>1
        <5>2. CASE y < d
          <6>1. (y + 1) * Day <= d * Day
            BY <2>1, <2>2, <5>2, Days
          <6>2. (y + 1) * Day = y * Day + Day /\ y * Day \in Int /\ d * Day \in Int
            BY <2>1, <2>2, Days
          <6> QED
            BY <1>5, <6>1, <6>2
        <5> QED
          BY <2>1, <2>2, <3>1, <5>1, <5>2
      <4>2. y * Day \in Int /\ d * Day \in Int
        BY <2>1, <2>2, Days
      <4> QED
        BY <2>2, <4>1, <4>2
    <3> QED
      BY <3>1
  <2>5. FirstDay(m) <= d /\ d < FirstDay(m) + DaysIn[m]
    <3>1. d \in Int
      BY <2>2
    <3>2. x <= d /\ d < y
      BY <2>3, <2>4, <3>1
    <3> QED
      BY <2>1, <3>2
  <2> QED
    BY <2>2, <2>5, MonthOfDay
<1>7. PICK f : f = [d \in DOMAIN part |-> (part[d].to - part[d].from) * (Scale \div MonthLength(d))]
  OBVIOUS
<1>8. ASSUME NEW d \in D PROVE f[d] = K * (hi[d] - lo[d])
  <2>1. f[d] = (hi[d] - lo[d]) * K
    BY <1>2, <1>4, <1>6, <1>7, <1>8
  <2>2. lo[d] \in Int /\ hi[d] \in Int
    BY <1>3, <1>8 DEF Parted
  <2> QED
    BY <1>5, <2>1, <2>2
<1>9. MonthShare(a, b) = SumFunctionOnSet(f, D)
  BY <1>1, <1>2, <1>7 DEF MonthShare, SumFunction
<1>10. SumFunctionOnSet(f, D) = K * (b - a)
  <2>1. IsFiniteSet(D) /\ Parted(D, lo, hi, a, b) /\ K \in Int /\ \A d \in D : f[d] = K * (hi[d] - lo[d])
    BY <1>3, <1>5, <1>8
  <2> QED
    BY ONLY <2>1, PartedSum
<1> QED
  BY <1>4, <1>9, <1>10

-----------------------------------------------------------------------------
(* What follows.                                                            *)

\* The types hold, and no line reaches past the windows billed so far.
THEOREM InvoiceTypes == Spec => []InvoiceTypeOK
<1>1. InvoiceInv => InvoiceTypeOK
  <2> SUFFICES ASSUME InvoiceInv PROVE InvoiceTypeOK
    OBVIOUS
  <2>1. \A l \in lines :
          /\ l.kind \in {"gpu", "covered", "unpriced", "volume", "node"}
          /\ l.uid \in Uids \cup {"node"} /\ 0 <= l.from /\ l.from < l.to /\ l.to <= billedTo
    BY DEF InvoiceInv, LinesFit, LineFits, Kinds
  <2> QED
    BY <2>1 DEF InvoiceInv, BooksFit, InvoiceTypeOK
<1> QED
  BY <1>1, Invoiced, PTL

\* No second of a uid is on two lines, of one statement or of several:
\* consecutive windows clip at their ends (invoice.py, intervals_for), and
\* the meter opens a uid again only after its last close.
THEOREM BilledAtMostOnce == Spec => []OnceAtMost
<1>1. InvoiceInv => OnceAtMost
  <2> SUFFICES ASSUME InvoiceInv, NEW u \in Uids \cup {"node"}, NEW s \in 0..(billedTo - 1)
               PROVE  Cardinality(LinesAt(u, s)) <= 1
    BY DEF OnceAtMost
  <2>1. s \in Nat
    OBVIOUS
  <2>2. CASE LinesAt(u, s) = {}
    BY <2>2, FS_EmptySet
  <2>3. CASE LinesAt(u, s) # {}
    <3>1. PICK l : l \in LinesAt(u, s)
      BY <2>3
    <3>2. \A m \in LinesAt(u, s) : m = l
      BY <2>1, <3>1 DEF LinesAt, InvoiceInv, LinesApart
    <3>3. LinesAt(u, s) = {l}
      BY <3>1, <3>2
    <3> QED
      BY <3>3, FS_Singleton
  <2> QED
    BY <2>2, <2>3
<1> QED
  BY <1>1, Invoiced, PTL

\* Every second the ledger shows, up to the end of the last window, is on a
\* line and no other second is, for each uid whose records all came in time:
\* open intervals are billed to the window's end and picked up by the next.
THEOREM EverySecondBilled == Spec => []EverySecond
<1>1. InvoiceConstants /\ InvoiceInv => EverySecond
  <2> SUFFICES ASSUME InvoiceConstants, InvoiceInv, NEW u \in Uids \ late, NEW s \in 0..(billedTo - 1)
               PROVE  LinesAt(u, s) # {} <=> Held(u, s)
    BY DEF EverySecond
  <2>1. s \in Nat /\ s < billedTo /\ u # "node"
    BY BooksAre DEF InvoiceInv, InvoiceConstants
  <2>2. Due(u, s) <=> \E l \in lines : l.uid = u /\ Covers(l, s)
    BY <2>1 DEF InvoiceInv, AllBilled
  <2> QED
    BY <2>1, <2>2 DEF Due, LinesAt
<1> QED
  BY <1>1, Invoiced, InvoiceConstants, PTL

\* Each second is priced at the rate in force in that second, whatever rates
\* took effect inside the interval (segments()), and is unpriced only when
\* none was.
THEOREM RateRight == Spec => []RateOfTheSecond
<1>1. InvoiceConstants /\ InvoiceInv => RateOfTheSecond
  <2> SUFFICES ASSUME InvoiceConstants, InvoiceInv, NEW l \in lines, l.kind # "covered",
                      NEW s \in l.from..(l.to - 1)
               PROVE  l.rate = InForce(s) /\ (l.kind = "unpriced" <=> InForce(s) = Never)
    BY DEF RateOfTheSecond
  <2>1. LineFits(l)
    BY DEF InvoiceInv, LinesFit
  <2>2. s \in Nat /\ Covers(l, s)
    BY <2>1 DEF LineFits, Covers
  <2> QED
    BY <2>1, <2>2 DEF LineFits
<1> QED
  BY <1>1, Invoiced, InvoiceConstants, PTL

\* A second on a reserved node is paid by the node-month or by the hour,
\* never by both and never by neither: the pod's line is "covered" exactly
\* where a node line bills the same second.
THEOREM PaidOnce == Spec => []NeverTwice
<1>1. InvoiceConstants /\ InvoiceInv => NeverTwice
  <2> SUFFICES ASSUME InvoiceConstants, InvoiceInv, NEW l \in lines, NEW s \in l.from..(l.to - 1),
                      l.uid \in Reserved
               PROVE  l.kind = "covered" <=> \E n \in LinesAt("node", s) : TRUE
    BY DEF NeverTwice
  <2>1. LineFits(l) /\ l.to <= billedTo /\ billedTo \in Nat
    BY BooksAre DEF InvoiceInv, LinesFit
  <2>2. s \in Nat /\ Covers(l, s) /\ s < billedTo
    BY <2>1 DEF LineFits, Covers
  <2>3. l.kind = "covered" <=> Covers(reserved, s)
    BY <2>2 DEF InvoiceInv, PaidApart
  <2>4. Covers(reserved, s) <=> \E n \in lines : n.uid = "node" /\ Covers(n, s)
    BY <2>2 DEF InvoiceInv, AllBilled, Due
  <2> QED
    BY <2>3, <2>4 DEF LinesAt
<1> QED
  BY <1>1, Invoiced, InvoiceConstants, PTL

\* The lines of the reserved node are finitely many: each has a second of its own.
LEMMA NodesFinite ==
  ASSUME InvoiceConstants, InvoiceInv, NEW N, \A l \in N : l \in lines /\ l.uid = "node"
  PROVE  IsFiniteSet(N)
<1>1. billedTo \in Nat
  BY BooksAre DEF InvoiceInv
<1>2. PICK f : f = [l \in N |-> l.from]
  OBVIOUS
<1>3. ASSUME NEW l \in N PROVE l.from \in 0..billedTo /\ Covers(l, l.from)
  <2>1. l.from \in Nat /\ l.to \in Nat /\ l.from < l.to /\ l.to <= billedTo
    BY <1>3 DEF InvoiceInv, LinesFit, LineFits
  <2> QED
    BY <1>1, <2>1 DEF Covers
<1>4. ASSUME NEW l \in N, NEW m \in N, f[l] = f[m] PROVE l = m
  <2>1. l.from = m.from /\ l.from \in Nat /\ Covers(l, l.from) /\ Covers(m, l.from)
    BY <1>1, <1>2, <1>3, <1>4
  <2>2. l \in lines /\ m \in lines /\ l.uid = m.uid
    OBVIOUS
  <2> QED
    BY <2>1, <2>2 DEF InvoiceInv, LinesApart
<1>5. f \in Injection(N, 0..billedTo)
  <2>1. f \in [N -> 0..billedTo]
    BY <1>2, <1>3
  <2> QED
    BY <1>4, <2>1 DEF Injection, IsInjective
<1>6. IsFiniteSet(0..billedTo)
  BY <1>1, FS_Interval
<1> QED
  BY <1>5, <1>6, FS_Injection

\* A month the node was reserved whole is cut up by the rows in it, whatever
\* statements, rates and parts of days they are of: their shares of a month,
\* each day at that of its own month (day_iter()), add up to a whole one.
LEMMA MonthCutUp ==
  ASSUME InvoiceConstants, InvoiceInv, NEW m \in DOMAIN DaysIn,
         NEW first, first = Day * FirstDay(m), NEW after, after = first + Day * DaysIn[m],
         reserved.from <= first, after <= reserved.to, after <= billedTo,
         NEW rows, rows = {l \in lines : l.uid = "node" /\ l.from < after /\ first < l.to},
         \A l \in rows : first <= l.from /\ l.to <= after,
         NEW f, f = [l \in rows |-> MonthShare(l.from, l.to)]
  PROVE  /\ IsFiniteSet(rows) /\ \A l \in rows : f[l] \in Nat
         /\ SumFunctionOnSet(f, rows) = Day * Scale
<1>1. PICK D, K : D = DaysIn[m] /\ K = Scale \div D
  OBVIOUS
<1>2. /\ D \in Nat /\ D > 0 /\ K \in Nat /\ K * D = Scale /\ Scale \in Nat /\ Day \in Nat /\ Day > 0 /\ Horizon \in Nat
      /\ FirstDay(m) \in Int
  <2>1. D \in Nat /\ D > 0 /\ FirstDay(m) \in Int /\ Scale \in Nat /\ Scale % D = 0
    BY <1>1, NextMonth DEF InvoiceConstants
  <2>2. K \in Nat /\ K * D = Scale
    <3>1. \A p, q \in Nat : q > 0 /\ p % q = 0 => p \div q \in Int /\ (p \div q) * q = p
      OBVIOUS
    <3>2. \A p \in Int, q \in Nat : p < 0 /\ q > 0 => p * q < 0
      OBVIOUS
    <3>3. K \in Int /\ K * D = Scale
      BY ONLY <1>1, <2>1, <3>1
    <3> QED
      BY ONLY <2>1, <3>2, <3>3
  <2> QED
    BY <2>1, <2>2 DEF InvoiceConstants
<1>3. /\ billedTo \in Nat /\ billedTo <= Horizon /\ reserved.from \in Nat /\ reserved.to \in Nat
  BY <1>2, BooksAre DEF InvoiceInv, BooksFit
<1>4. first \in Nat /\ after \in Nat /\ first < after /\ after <= Horizon
  <2>1. first \in Int /\ Day * D \in Nat /\ Day * D > 0
    BY <1>2
  <2>2. after = first + Day * D
    BY <1>1
  <2>3. first >= 0
    BY <1>3, <2>1
  <2> QED
    BY <1>3, <2>1, <2>2, <2>3
<1>5. PICK from, to : from = [l \in rows |-> l.from] /\ to = [l \in rows |-> l.to]
  OBVIOUS
<1>6. ASSUME NEW l \in lines
      PROVE  l.from \in Nat /\ l.to \in Nat /\ l.from < l.to
  BY DEF InvoiceInv, LinesFit, LineFits
<1>7. ASSUME NEW l \in rows
      PROVE  /\ l \in lines /\ l.uid = "node" /\ from[l] \in Nat /\ to[l] \in Nat /\ from[l] < to[l]
             /\ first <= from[l] /\ to[l] <= after
             /\ \A s \in Nat : from[l] <= s /\ s < to[l] <=> Covers(l, s)
  BY <1>5, <1>6 DEF Covers
<1>8. IsFiniteSet(rows)
  BY <1>7, NodesFinite
<1>9. ASSUME NEW s \in Int, first <= s, s < after
      PROVE  \E l \in rows : from[l] <= s /\ s < to[l]
  <2>1. s \in Nat /\ s < billedTo /\ Due("node", s)
    BY <1>3, <1>4, <1>9 DEF Due, Covers
  <2>2. PICK l \in lines : l.uid = "node" /\ Covers(l, s)
    BY <2>1 DEF InvoiceInv, AllBilled
  <2>3. l.from < after /\ first < l.to
    BY <1>4, <1>6, <1>9, <2>1, <2>2 DEF Covers
  <2> QED
    BY <1>5, <2>2, <2>3 DEF Covers
<1>10. ASSUME NEW l \in rows, NEW k \in rows, NEW s \in Int,
              from[l] <= s, s < to[l], from[k] <= s, s < to[k]
       PROVE  l = k
  <2>1. s \in Nat
    BY <1>7, <1>10
  <2>2. Covers(l, s) /\ Covers(k, s) /\ l \in lines /\ k \in lines /\ l.uid = k.uid
    BY <1>7, <1>10, <2>1
  <2> QED
    BY <2>1, <2>2 DEF InvoiceInv, LinesApart
<1>11. Parted(rows, from, to, first, after)
  <2>1. first \in Int /\ after \in Int /\ first <= after
    BY ONLY <1>4
  <2>2. \A l \in rows : /\ from[l] \in Int /\ to[l] \in Int
                        /\ first <= from[l] /\ from[l] < to[l] /\ to[l] <= after
    BY ONLY <1>7
  <2> QED
    BY ONLY <1>9, <1>10, <2>1, <2>2 DEF Parted
<1>12. ASSUME NEW l \in rows PROVE f[l] = K * (to[l] - from[l]) /\ f[l] \in Nat
  <2>1. f[l] = MonthShare(from[l], to[l])
    BY <1>5
  <2>2. PICK a, b \in Nat : a = from[l] /\ b = to[l] /\ a < b /\ first <= a /\ b <= after
    BY <1>7
  <2>3. b <= Horizon
    BY ONLY <1>2, <1>4, <2>2
  <2>4. MonthShare(a, b) = (Scale \div DaysIn[m]) * (b - a)
    BY <2>2, <2>3, ShareIs
  <2>5. f[l] = K * (b - a)
    BY <1>1, <2>1, <2>2, <2>4
  <2>6. K * (b - a) \in Nat
    <3>1. b - a \in Nat
      BY <2>2
    <3>2. \A x, y \in Nat : x * y \in Nat
      OBVIOUS
    <3> QED
      BY ONLY <1>2, <3>1, <3>2
  <2> QED
    BY <2>2, <2>5, <2>6
<1>13. SumFunctionOnSet(f, rows) = K * (after - first)
  BY ONLY <1>2, <1>8, <1>11, <1>12, PartedSum
<1>14. K * (after - first) = Day * Scale
  <2>1. after - first = Day * D
    <3>1. Day * D \in Int
      BY <1>2
    <3> QED
      BY <1>1, <1>4, <3>1
  <2>2. K * (Day * D) = Day * (K * D)
    BY <1>2
  <2> QED
    BY <1>2, <2>1, <2>2
<1> QED
  BY <1>8, <1>12, <1>13, <1>14

\* What is bounded row by row is bounded in sum, the allowance once a row.
LEMMA SumsBounded ==
  ASSUME NEW S, IsFiniteSet(S), NEW f, NEW g, NEW A \in Int, NEW B \in Int, NEW E \in Int,
         \A i \in S : f[i] \in Int /\ g[i] \in Int /\ B * g[i] <= A * f[i] + E
  PROVE  /\ SumFunctionOnSet(f, S) \in Int /\ SumFunctionOnSet(g, S) \in Int /\ Cardinality(S) \in Nat
         /\ B * SumFunctionOnSet(g, S) <= A * SumFunctionOnSet(f, S) + E * Cardinality(S)
<1> DEFINE Good(T) == /\ SumFunctionOnSet(f, T) \in Int /\ SumFunctionOnSet(g, T) \in Int /\ Cardinality(T) \in Nat
                      /\ B * SumFunctionOnSet(g, T) <= A * SumFunctionOnSet(f, T) + E * Cardinality(T)
           Bad == {T \in SUBSET S : ~Good(T)}
<1>1. ASSUME Bad # {} PROVE FALSE
  <2>1. PICK T \in Bad : \A R \in Bad : R \subseteq T => R = T
    <3>1. Bad \in SUBSET SUBSET S
      OBVIOUS
    <3> HIDE DEF Bad
    <3> QED
      BY <1>1, <3>1, SmallestPart
  <2>2. T \in SUBSET S /\ ~Good(T) /\ IsFiniteSet(T)
    BY <2>1, FS_Subset
  <2>3. CASE T = {}
    <3>1. SumFunctionOnSet(f, T) = 0 /\ SumFunctionOnSet(g, T) = 0 /\ Cardinality(T) = 0
      BY <2>3, SumOfNone, FS_EmptySet
    <3> QED
      BY <2>2, <3>1
  <2>4. CASE T # {}
    <3>1. PICK r \in T : TRUE
      BY <2>4
    <3>2. PICK R : R = T \ {r}
      OBVIOUS
    <3>3. Good(R)
      <4>1. R \in SUBSET S /\ R # T /\ R \subseteq T
        BY <2>2, <3>1, <3>2
      <4> HIDE DEF Good
      <4> QED
        BY <2>1, <4>1
    <3>4. /\ SumFunctionOnSet(f, T) = f[r] + SumFunctionOnSet(f, R)
          /\ SumFunctionOnSet(g, T) = g[r] + SumFunctionOnSet(g, R)
      <4>1. \A i \in T : f[i] \in Int /\ g[i] \in Int
        BY <2>2
      <4> HIDE DEF Bad, Good
      <4> QED
        BY <2>2, <3>1, <3>2, <4>1, SumWithout
    <3>5. Cardinality(R) = Cardinality(T) - 1 /\ Cardinality(T) \in Nat
      <4> HIDE DEF Bad, Good
      <4> QED
        BY <2>2, <3>1, <3>2, FS_RemoveElement, FS_CardinalityType
    <3>6. PICK p, q, u, v \in Int, c \in Nat :
            /\ p = f[r] /\ q = g[r] /\ c = Cardinality(R)
            /\ u = SumFunctionOnSet(f, R) /\ v = SumFunctionOnSet(g, R)
            /\ B * q <= A * p + E /\ B * v <= A * u + E * c
      <4>1. f[r] \in Int /\ g[r] \in Int /\ B * g[r] <= A * f[r] + E
        BY <2>2, <3>1
      <4> QED
        BY <3>3, <4>1
    <3>7. B * (q + v) <= A * (p + u) + E * (c + 1)
      <4>1. B * (q + v) = B * q + B * v /\ A * (p + u) = A * p + A * u /\ E * (c + 1) = E * c + E
        BY <3>6
      <4>2. PICK a1, a2, b1, b2, e1 \in Int : /\ a1 = A * p /\ a2 = A * u /\ b1 = B * q /\ b2 = B * v /\ e1 = E * c
        <5>1. \A x, y \in Int : x * y \in Int
          OBVIOUS
        <5>2. c \in Int
          BY ONLY <3>6
        <5>3. A * p \in Int /\ A * u \in Int /\ B * q \in Int /\ B * v \in Int /\ E * c \in Int
          BY ONLY <3>6, <5>1, <5>2, A \in Int, B \in Int, E \in Int
        <5> QED
          BY ONLY <5>3
      <4>3. b1 + b2 <= a1 + a2 + (e1 + E)
        BY ONLY <3>6, <4>2
      <4> QED
        BY <4>1, <4>2, <4>3
    <3>8. Good(T)
      <4>1. SumFunctionOnSet(f, T) = p + u /\ SumFunctionOnSet(g, T) = q + v /\ Cardinality(T) = c + 1
        BY <3>4, <3>5, <3>6
      <4>2. p + u \in Int /\ q + v \in Int /\ c + 1 \in Nat
        BY <3>6
      <4> QED
        BY <3>7, <4>1, <4>2
    <3> QED
      BY <2>2, <3>8
  <2> QED
    BY <2>3, <2>4
<1>2. Good(S)
  BY <1>1
<1> QED
  BY <1>2

\* A rounded quotient is within half a unit of the exact one.
LEMMA CentsAre ==
  ASSUME NEW p \in Nat, NEW q \in Nat, q > 0
  PROVE  /\ Cents(p, q) \in Nat
         /\ 2 * p <= 2 * q * Cents(p, q) + q
         /\ 2 * q * Cents(p, q) <= 2 * p + q
<1>1. PICK x, y \in Nat : x = 2 * p + q /\ y = 2 * q /\ y > 0
  OBVIOUS
<1>2. PICK c : c = x \div y
  OBVIOUS
<1>3. c \in Nat /\ y * c <= x /\ x < y * c + y
  BY <1>1, <1>2
<1>4. Cents(p, q) = c
  BY <1>1, <1>2 DEF Cents
<1>5. PICK z \in Int : z = y * c
  BY <1>1, <1>3
<1>6. 2 * q * c = z
  BY <1>1, <1>3, <1>5
<1>7. 2 * p <= z + q /\ z <= 2 * p + q
  BY ONLY <1>1, <1>3, <1>5
<1> QED
  BY <1>3, <1>4, <1>6, <1>7

\* Rows that cost their shares of a price each, rounded, and whose shares add
\* up to the whole T: were each of them dearer than their sum, or cheaper, so
\* would be the sum, but for half a unit a row.
LEMMA SharesPaid ==
  ASSUME NEW S, IsFiniteSet(S), NEW price, NEW f, NEW c, NEW T \in Nat, T > 0, NEW U \in Nat,
         NEW W \in Nat, W = T * U, SumFunctionOnSet(f, S) = T,
         \A l \in S : /\ price[l] \in Nat /\ c[l] \in Nat /\ f[l] \in Nat
                      /\ 2 * (price[l] * f[l]) <= (2 * W) * c[l] + W
                      /\ (2 * W) * c[l] <= 2 * (price[l] * f[l]) + W
  PROVE  /\ \E l \in S : 2 * price[l] <= 2 * (U * SumFunctionOnSet(c, S)) + U * Cardinality(S)
         /\ \E l \in S : 2 * (U * SumFunctionOnSet(c, S)) <= 2 * price[l] + U * Cardinality(S)
<1>1. PICK C, n, V, N, Y : /\ C = SumFunctionOnSet(c, S) /\ n = Cardinality(S) /\ V = 2 * (U * C)
                           /\ N = U * n /\ Y = 2 * W
  OBVIOUS
<1>2. Y \in Int /\ -Y \in Int /\ W \in Int /\ T \in Int /\ U \in Int
  BY ONLY <1>1, T \in Nat, U \in Nat, W \in Nat
<1>3. ASSUME NEW l \in S PROVE c[l] \in Int /\ f[l] \in Int /\ price[l] \in Int
  OBVIOUS
<1>4. C \in Int /\ n \in Int
  <2>1. PICK z \in Int : z = 0
    OBVIOUS
  <2>2. ASSUME NEW l \in S PROVE z * f[l] <= z * c[l] + z
    BY ONLY <1>3, <2>1
  <2> QED
    BY ONLY IsFiniteSet(S), <1>1, <1>3, <2>1, <2>2, SumsBounded
<1>5. V \in Int /\ N \in Int /\ T * V = Y * C /\ T * N = W * n
  <2>1. \A x, y, z \in Int : x * y \in Int /\ x * (2 * (y * z)) = (2 * (x * y)) * z /\ x * (y * z) = (x * y) * z
    OBVIOUS
  <2>2. /\ T * (2 * (U * C)) = (2 * (T * U)) * C /\ T * (U * n) = (T * U) * n
        /\ U * C \in Int /\ U * n \in Int
    BY ONLY <1>2, <1>4, <2>1
  <2>3. 2 * (U * C) \in Int
    BY ONLY <2>2
  <2> QED
    BY ONLY <1>1, <2>2, <2>3, W = T * U
<1>6. PICK a, b \in Int : a = Y * C /\ b = W * n
  <2>1. \A x, y \in Int : x * y \in Int
    OBVIOUS
  <2> QED
    BY ONLY <1>2, <1>4, <2>1
<1>7. \E l \in S : 2 * price[l] <= V + N
  <2> SUFFICES ASSUME ~\E l \in S : 2 * price[l] <= V + N PROVE FALSE
    OBVIOUS
  <2>1. ASSUME NEW l \in S PROVE V + N + 1 <= 2 * price[l]
    <3>1. PICK p \in Int : p = price[l]
      BY ONLY <1>3, l \in S
    <3>2. ~(2 * p <= V + N)
      BY <3>1
    <3>3. V + N + 1 <= 2 * p
      BY ONLY <1>5, <3>2, p \in Int
    <3> QED
      BY ONLY <3>1, <3>3
  <2>2. PICK B \in Int : B = V + N + 1
    BY ONLY <1>5
  <2>3. ASSUME NEW l \in S PROVE B * f[l] <= Y * c[l] + W
    <3>1. PICK p, g, k \in Nat : p = price[l] /\ g = f[l] /\ k = c[l]
      OBVIOUS
    <3>2. B <= 2 * p
      BY ONLY <2>1, <2>2, <3>1
    <3>3. B * g <= 2 * (p * g)
      BY ONLY <3>2, p \in Nat, g \in Nat, B \in Int
    <3>4. 2 * (p * g) <= Y * k + W
      BY <1>1, <3>1
    <3>5. B * g \in Int /\ p * g \in Int /\ Y * k \in Int
      BY ONLY <1>2, p \in Nat, g \in Nat, k \in Nat, B \in Int
    <3>6. B * g <= Y * k + W
      BY ONLY <1>2, <3>3, <3>4, <3>5
    <3> QED
      BY ONLY <3>1, <3>6
  <2>4. B * T <= Y * C + W * n
    BY ONLY IsFiniteSet(S), SumFunctionOnSet(f, S) = T, B \in Int, <1>1, <1>2, <1>3, <2>3, SumsBounded
  <2>5. B * T = a + b + T
    <3>1. \A x, y, z \in Int : (x + y + 1) * z = z * x + z * y + z
      OBVIOUS
    <3>2. B * T = T * V + T * N + T
      BY ONLY <1>2, <1>5, <2>2, <3>1
    <3> QED
      BY ONLY <1>5, <1>6, <3>2
  <2> QED
    BY ONLY <1>6, <2>4, <2>5, T \in Nat, T > 0
<1>8. \E l \in S : V <= 2 * price[l] + N
  <2> SUFFICES ASSUME ~\E l \in S : V <= 2 * price[l] + N PROVE FALSE
    OBVIOUS
  <2>1. ASSUME NEW l \in S PROVE 2 * price[l] + N + 1 <= V
    <3>1. PICK p \in Int : p = price[l]
      BY ONLY <1>3, l \in S
    <3>2. ~(V <= 2 * p + N)
      BY <3>1
    <3>3. 2 * p + N + 1 <= V
      BY ONLY <1>5, <3>2, p \in Int
    <3> QED
      BY ONLY <3>1, <3>3
  <2>2. PICK B \in Int : B = N + 1 - V
    BY ONLY <1>5
  <2>3. ASSUME NEW l \in S PROVE B * f[l] <= (-Y) * c[l] + W
    <3>1. PICK p, g, k \in Nat : p = price[l] /\ g = f[l] /\ k = c[l]
      OBVIOUS
    <3>2. B <= -(2 * p)
      BY ONLY <1>5, <2>1, <2>2, <3>1
    <3>3. B * g <= -(2 * (p * g))
      BY ONLY <3>2, p \in Nat, g \in Nat, B \in Int
    <3>4. Y * k <= 2 * (p * g) + W
      BY <1>1, <3>1
    <3>5. B * g \in Int /\ p * g \in Int /\ Y * k \in Int /\ (-Y) * k = -(Y * k)
      BY ONLY <1>2, p \in Nat, g \in Nat, k \in Nat, B \in Int
    <3>6. B * g <= (-Y) * k + W
      BY ONLY <1>2, <3>3, <3>4, <3>5
    <3> QED
      BY ONLY <3>1, <3>6
  <2>4. B * T <= (-Y) * C + W * n
    BY ONLY IsFiniteSet(S), SumFunctionOnSet(f, S) = T, B \in Int, <1>1, <1>2, <1>3, <2>3, SumsBounded
  <2>5. B * T = b + T - a
    <3>1. \A x, y, z \in Int : (y + 1 - x) * z = z * y + z - z * x
      OBVIOUS
    <3>2. B * T = T * N + T - T * V
      BY ONLY <1>2, <1>5, <2>2, <3>1
    <3> QED
      BY ONLY <1>5, <1>6, <3>2
  <2>6. (-Y) * C = -a
    BY ONLY <1>2, <1>4, <1>6
  <2> QED
    BY ONLY <1>6, <2>4, <2>5, <2>6, T \in Nat, T > 0
<1> QED
  BY <1>1, <1>7, <1>8

\* The rate of a row of the node's is one of the price book's.
LEMMA RowPriced ==
  ASSUME InvoiceConstants, InvoiceInv, NEW l \in lines, l.kind = "node"
  PROVE  l.rate \in rates /\ Price("node", l.rate) \in Nat
<1>1. /\ l.from \in Nat /\ Covers(l, l.from)
      /\ \A s \in Nat : Covers(l, s) => l.rate = InForce(s) /\ InForce(s) # Never
  BY DEF InvoiceInv, LinesFit, LineFits, Covers
<1>2. rates \in RateCards /\ rates \in SUBSET Nat
  BY DEF InvoiceInv, BooksFit, InvoiceConstants
<1>3. PICK R : R = {e \in rates : e <= l.from}
  OBVIOUS
<1>4. l.rate = Max(R) /\ R # {}
  BY <1>1, <1>3 DEF InForce
<1>5. R \in SUBSET (0..l.from)
  <2>1. ASSUME NEW e \in R PROVE e \in 0..l.from
    BY ONLY <1>1, <1>2, <1>3, e \in R
  <2> QED
    BY ONLY <2>1
<1>6. l.rate \in R
  BY ONLY <1>1, <1>4, <1>5, MaxIs
<1>7. l.rate \in rates
  BY <1>3, <1>6
<1> QED
  BY <1>2, <1>7 DEF InvoiceConstants

\* The shares of such a month add up to a whole one (MonthCutUp) and rounding
\* takes half a cent of each row at the most (CentsAre).
THEOREM OneNodeMonth == Spec => []WholeMonth
<1>1. InvoiceConstants /\ InvoiceInv => WholeMonth
  <2> SUFFICES ASSUME InvoiceConstants, InvoiceInv, NEW m \in DOMAIN DaysIn,
                      NEW first, first = Day * FirstDay(m), NEW after, after = first + Day * DaysIn[m],
                      NEW rows, rows = {l \in lines : l.uid = "node" /\ l.from < after /\ first < l.to},
                      reserved.from <= first, after <= reserved.to, after <= billedTo,
                      \A l \in rows : l.kind = "node" /\ first <= l.from /\ l.to <= after,
                      NEW c, c = [l \in rows |-> l.cents]
               PROVE  /\ \E l \in rows : 2 * Price("node", l.rate)
                                           <= 2 * (Cent * SumFunction(c)) + Cent * Cardinality(rows)
                      /\ \E l \in rows : 2 * (Cent * SumFunction(c))
                                           <= 2 * Price("node", l.rate) + Cent * Cardinality(rows)
    BY DEF WholeMonth
  <2>1. PICK f, price : /\ f = [l \in rows |-> MonthShare(l.from, l.to)]
                        /\ price = [l \in rows |-> Price("node", l.rate)]
    OBVIOUS
  <2>2. PICK T, W : T = Day * Scale /\ W = T * Cent
    OBVIOUS
  <2>3. T \in Nat /\ T > 0 /\ W \in Nat /\ W > 0 /\ Cent \in Nat
    <3>1. \A x, y \in Nat : x > 0 /\ y > 0 => x * y \in Nat /\ x * y > 0
      OBVIOUS
    <3>2. Day \in Nat /\ Day > 0 /\ Scale \in Nat /\ Scale > 0 /\ Cent \in Nat /\ Cent > 0
      BY DEF InvoiceConstants
    <3>3. T \in Nat /\ T > 0
      BY ONLY <2>2, <3>1, <3>2
    <3> QED
      BY ONLY <2>2, <3>1, <3>2, <3>3
  <2>4. IsFiniteSet(rows) /\ (\A l \in rows : f[l] \in Nat) /\ SumFunctionOnSet(f, rows) = T
    <3>1. /\ IsFiniteSet(rows) /\ \A l \in rows : f[l] \in Nat
          /\ SumFunctionOnSet(f, rows) = Day * Scale
      <4>1. \A l \in rows : first <= l.from /\ l.to <= after
        OBVIOUS
      <4> QED
        BY <2>1, <4>1, MonthCutUp, ZenonT(60)
    <3> QED
      BY ONLY <2>2, <3>1
  <2>5. ASSUME NEW l \in rows
        PROVE  /\ price[l] \in Nat /\ c[l] \in Nat /\ f[l] \in Nat
               /\ 2 * (price[l] * f[l]) <= (2 * W) * c[l] + W
               /\ (2 * W) * c[l] <= 2 * (price[l] * f[l]) + W
    <3>1. l \in lines /\ l.kind = "node"
      OBVIOUS
    <3>2. l.cents = NodeFare(l)
      BY <3>1 DEF InvoiceInv, LinesFit, LineFits
    <3>3. price[l] \in Nat
      BY <2>1, <3>1, RowPriced
    <3>4. PICK p : p = price[l] * f[l]
      OBVIOUS
    <3>5. p \in Nat
      <4>1. \A x, y \in Nat : x * y \in Nat
        OBVIOUS
      <4> QED
        BY ONLY <2>4, <3>3, <3>4, <4>1, l \in rows
    <3>6. c[l] = Cents(p, W)
      <4>1. price[l] = Price("node", l.rate) /\ f[l] = MonthShare(l.from, l.to) /\ c[l] = l.cents
        BY ONLY <2>1, c = [k \in rows |-> k.cents], l \in rows
      <4> QED
        BY ONLY <2>2, <3>2, <3>4, <4>1 DEF NodeFare
    <3>7. Cents(p, W) \in Nat /\ 2 * p <= 2 * W * Cents(p, W) + W /\ 2 * W * Cents(p, W) <= 2 * p + W
      BY ONLY <2>3, <3>5, CentsAre
    <3> QED
      BY ONLY <2>4, <3>3, <3>4, <3>6, <3>7, l \in rows
  <2>6. /\ \E l \in rows : 2 * price[l] <= 2 * (Cent * SumFunctionOnSet(c, rows)) + Cent * Cardinality(rows)
        /\ \E l \in rows : 2 * (Cent * SumFunctionOnSet(c, rows)) <= 2 * price[l] + Cent * Cardinality(rows)
    BY ONLY <2>2, <2>3, <2>4, <2>5, SharesPaid
  <2>7. SumFunction(c) = SumFunctionOnSet(c, rows)
    BY DEF SumFunction
  <2>8. \A l \in rows : price[l] = Price("node", l.rate)
    BY ONLY <2>1
  <2> QED
    BY ONLY <2>6, <2>7, <2>8
<1> QED
  BY <1>1, Invoiced, InvoiceConstants, PTL

=============================================================================
