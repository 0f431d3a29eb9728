---------------------------- MODULE LedgerProofs ----------------------------
(***************************************************************************)
(* The chain of the ledger and the intervals on it, for any subjects, grace *)
(* periods, failed calls, failed lists and crashes, as long as an append    *)
(* that fails leaves nothing behind.                                        *)
(***************************************************************************)
EXTENDS MeteringProperties, FiniteSetTheorems, SequenceTheorems, WellFoundedInduction, TLAPS

Lines(S) == file \in Seq(S)

\* While the process lives its records are the file's and nothing follows
\* them; a partial line exists only between a crash and the next load.
LedgerInv ==
  /\ \E S : Lines(S)
  /\ chainOk = TRUE /\ Chained(file)
  /\ pc # "down" => records = file /\ torn = FALSE

\* A line made by Line() continues the chain it was made for.
LEMMA ChainGrows ==
  ASSUME NEW e, NEW u, NEW at, NEW from, \E S : Lines(S), Chained(file), records = file
  PROVE  LET l == Line(e, u, at, from) IN
         /\ \E S : Append(file, l) \in Seq(S)
         /\ Chained(Append(file, l))
<1> DEFINE l == Line(e, u, at, from)
<1>1. PICK S : file \in Seq(S)
  BY DEF Lines
<1> DEFINE T == S \cup {l}
<1> HIDE DEF l
<1>2. file \in Seq(T) /\ l \in T
  BY <1>1, SeqMonotonic
<1> HIDE DEF T
<1>3. /\ Append(file, l) \in Seq(T)
      /\ Len(file) \in Nat
      /\ DOMAIN file = 1..Len(file)
      /\ DOMAIN Append(file, l) = 1..(Len(file) + 1)
      /\ Append(file, l)[Len(file) + 1] = l
      /\ \A i \in 1..Len(file) : Append(file, l)[i] = file[i]
  BY <1>2
<1>4. l.prev = IF file = <<>> THEN 0 ELSE file[Len(file)].seq
  BY DEF l, Line
<1>5. file = <<>> <=> Len(file) = 0
  BY <1>2
<1>6. Chained(Append(file, l))
  <2> SUFFICES ASSUME NEW i \in 1..(Len(file) + 1)
               PROVE  Append(file, l)[i].prev =
                        (IF i = 1 THEN 0 ELSE Append(file, l)[i - 1].seq)
    BY <1>3 DEF Chained
  <2>1. CASE i = Len(file) + 1
    <3>1. CASE i = 1
      <4>1. file = <<>> /\ Append(file, l)[i] = l
        BY <1>3, <1>5, <2>1, <3>1
      <4>2. l.prev = 0
        BY <1>4, <4>1
      <4> QED
        BY <3>1, <4>1, <4>2
    <3>2. CASE i # 1
      <4>1. i - 1 = Len(file) /\ i - 1 \in 1..Len(file) /\ file # <<>>
        BY <1>3, <1>5, <2>1, <3>2
      <4> QED
        BY <1>3, <1>4, <2>1, <3>2, <4>1
    <3> QED
      BY <3>1, <3>2
  <2>2. CASE i # Len(file) + 1
    <3>1. i \in 1..Len(file) /\ (i # 1 => i - 1 \in 1..Len(file))
      BY <1>3, <2>2
    <3>2. file[i].prev = (IF i = 1 THEN 0 ELSE file[i - 1].seq)
      BY <1>3, <3>1, Chained(file) DEF Chained
    <3> QED
      BY <1>3, <3>1, <3>2
  <2> QED
    BY <2>1, <2>2
<1> QED
  BY <1>3, <1>6 DEF l

\* An append that succeeds keeps disk, memory and chain together.
LEMMA RecordedKeeps ==
  ASSUME LedgerInv, pc # "down",
         NEW e, NEW u, NEW at, NEW from, Recorded(Line(e, u, at, from))
  PROVE  LedgerInv'
<1> DEFINE l == Line(e, u, at, from)
<1>1. (\E S : Lines(S)) /\ Chained(file) /\ records = file /\ torn = FALSE /\ chainOk = TRUE
  BY DEF LedgerInv
<1>2. (\E S : Append(file, l) \in Seq(S)) /\ Chained(Append(file, l))
  BY <1>1, ChainGrows
<1> HIDE DEF l
<1>3. file' = Append(file, l) /\ records' = file' /\ torn' = FALSE /\ chainOk' = TRUE
  BY <1>1 DEF Recorded, Written, l
<1>4. Chained(file)'
  BY <1>2, <1>3 DEF Chained
<1> QED
  BY <1>2, <1>3, <1>4 DEF LedgerInv, Lines

\* A step that leaves the ledger alone and does not come out of a crash.
LEMMA LedgerUntouched ==
  ASSUME LedgerInv, UNCHANGED ledger, pc # "down" \/ pc' = "down"
  PROVE  LedgerInv'
BY DEF LedgerInv, Lines, ledger, Chained

\* The meter's own steps.
LEMMA MeterKeeps == ASSUME LedgerInv, Meter PROVE LedgerInv'
<1>1. CASE Wake \/ TakeNow \/ ListClaims \/ ClaimsFail \/ CloseLoop \/ SaveSeen
  <2>1. UNCHANGED ledger /\ pc # "down"
    BY <1>1 DEF Wake, TakeNow, ListClaims, ClaimsFail, CloseLoop, SaveSeen
  <2> QED
    BY <2>1, LedgerUntouched
<1>2. CASE Load
  <2>1. file' = file /\ records' = file /\ torn' = FALSE /\ chainOk' = Chained(file)
    BY <1>2 DEF Load, Truncated
  <2> QED
    BY <2>1 DEF LedgerInv, Lines, Chained
<1>3. ASSUME NEW u \in Subjects, ListPods(u) \/ SeeSubject(u)
      PROVE  LedgerInv'
  <2>1. UNCHANGED ledger /\ pc # "down"
    BY <1>3 DEF ListPods, SeeSubject
  <2> QED
    BY <2>1, LedgerUntouched
<1>4. ASSUME NEW u \in Subjects, OpenInterval(u)
      PROVE  LedgerInv'
  <2>1. PICK l \in OpenDue(u) : Recorded(l)
    BY <1>4 DEF OpenInterval
  <2>2. pc # "down" /\ \E at : l = OpenLine(u, at)
    BY <2>1 DEF OpenDue
  <2>3. PICK at : l = OpenLine(u, at)
    BY <2>2
  <2> QED
    BY <2>1, <2>2, <2>3, RecordedKeeps DEF OpenLine
<1>5. ASSUME NEW u \in Subjects, CloseInterval(u)
      PROVE  LedgerInv'
  <2>1. PICK l \in CloseDue(u) : Recorded(l)
    BY <1>5 DEF CloseInterval
  <2>2. pc # "down" /\ l = CloseLine(u, CloseAt(u))
    BY <2>1, MeterConstants DEF CloseDue, Calls
  <2> QED
    BY <2>1, <2>2, RecordedKeeps DEF CloseLine
<1> QED
  BY <1>1, <1>2, <1>3, <1>4, <1>5 DEF Meter

\* What fails, and what the cluster does.
LEMMA OthersKeep ==
  ASSUME AppendErrors \subseteq {"nothing"}, LedgerInv,
         TickFails \/ Crash \/ Cluster \/ TimePasses
  PROVE  LedgerInv'
<1>1. CASE TickFails
  <2>1. UNCHANGED ledger
    BY <1>1 DEF TickFails, Refused, ledger
  <2>2. pc # "down"
    BY <1>1, MeterConstants DEF TickFails, OpenDue, CloseDue, Calls
  <2> QED
    BY <2>1, <2>2, LedgerUntouched
<1>2. CASE Crash
  BY <1>2 DEF Crash, LedgerInv, Lines, Chained
<1>3. CASE Cluster
  <2>1. UNCHANGED ledger /\ pc' = pc
    BY <1>3 DEF Cluster, Starts, Ends, Deleted, Gone, Becomes, tick
  <2> QED
    BY <2>1, LedgerUntouched
<1>4. CASE TimePasses
  <2>1. UNCHANGED ledger /\ pc' = pc
    BY <1>4 DEF TimePasses, tick
  <2> QED
    BY <2>1, LedgerUntouched
<1> QED
  BY <1>1, <1>2, <1>3, <1>4

LEMMA LedgerStarts == ASSUME Init PROVE LedgerInv
<1>1. file = <<>> /\ records = file /\ torn = FALSE /\ chainOk = TRUE
  BY DEF Init
<1>2. file \in Seq({})
  BY <1>1, EmptySeq
<1>3. Chained(file)
  BY <1>1 DEF Chained
<1> QED
  BY <1>1, <1>2, <1>3 DEF LedgerInv, Lines

LEMMA LedgerSteps ==
  ASSUME AppendErrors \subseteq {"nothing"}, LedgerInv, [Next]_vars
  PROVE  LedgerInv'
<1>1. CASE Meter
  BY <1>1, MeterKeeps
<1>2. CASE TickFails \/ Crash \/ Cluster \/ TimePasses
  BY <1>2, OthersKeep
<1>3. CASE UNCHANGED vars
  BY <1>3 DEF vars, ledger, tick, LedgerInv, Lines, Chained
<1> QED
  BY <1>1, <1>2, <1>3 DEF Next

\* Ledger._load and append: whatever fails and whenever the meter dies, the
\* chain on the disk verifies and the records in memory are those on the disk,
\* provided a refused append wrote nothing.
THEOREM ChainKept ==
  ASSUME AppendErrors \subseteq {"nothing"}
  PROVE  Spec => []ChainHolds
<1>1. Init => LedgerInv
  BY LedgerStarts
<1>2. ASSUME LedgerInv, [Next]_vars PROVE LedgerInv'
  BY <1>2, LedgerSteps
<1>3. LedgerInv => ChainHolds
  BY DEF LedgerInv, ChainHolds
<1> QED
  BY <1>1, <1>2, <1>3, PTL DEF Spec

-----------------------------------------------------------------------------
(* Exactly once.  The property speaks of the file alone; what a record may   *)
(* say depends on what the tick has listed, on the clock it read after the   *)
(* lists, and on the instants an earlier tick or an earlier process noted.   *)

Lifetime == [phase : {"absent", "running", "ended", "gone", "vanished"}, start : Int,
             stop : Int, told : BOOLEAN, due : Int]

Started(u) == world[u].phase # "absent"

\* No end shown by the API lies before the start.
EndsLater(p) == (p.told => p.start <= p.stop) /\ (p.due # Never => p.start <= p.due)

\* A subject starts once, in the past.
WorldFits ==
  /\ now \in Int /\ world \in [Subjects -> Lifetime]
  /\ \A u \in Subjects :
       IF Started(u) THEN world[u].start <= now /\ EndsLater(world[u])
                     ELSE world[u].told = FALSE /\ world[u].due = Never

\* What a tick has listed is a subject's real start; the clock is read later.
ViewFits ==
  /\ clock \in Int /\ view \in [Subjects -> Lifetime]
  /\ \A u \in Subjects : Listed(view[u]) =>
       Started(u) /\ view[u].start = world[u].start /\ EndsLater(view[u])
  /\ pc \in {"pods"} \cup Subjects =>
       \A u \in Pods : Listed(view[u]) => view[u].start <= clock

\* An instant a pod was seen at is not before its start.
Later(u, t) == t # Never => Started(u) /\ world[u].start <= t
SeenFits ==
  /\ seen \in [Subjects -> Int] /\ seenFile \in [Subjects -> Int]
  /\ \A u \in Pods : Later(u, seen[u]) /\ Later(u, seenFile[u])

\* Whose turn it is in each loop.
TodoFits ==
  /\ pc \in {"pods"} \cup Subjects => \A u \in todo : u \in Pods /\ Listed(view[u])
  /\ pc = "claims" => \A u \in todo : u \in Claims /\ Resident(view[u])
  /\ pc = "closing" => \A u \in todo : Of(records, u, "open") # {}
  /\ pc \in Subjects => Of(records, pc, "open") # {}

\* Every record of a pod lies after its start.
EntriesFit ==
  \A i \in DOMAIN file :
    /\ file[i].event \in {"open", "close"} /\ file[i].uid \in Subjects /\ file[i].at \in Int
    /\ file[i].uid \in Pods => Started(file[i].uid) /\ world[file[i].uid].start <= file[i].at

MeterInv ==
  LedgerInv /\ WorldFits /\ ViewFits /\ SeenFits /\ TodoFits /\ EntriesFit /\ ExactlyOnce

\* Latest(I) is the greatest of a set of positions: the ranges above its members
\* are finite, and inclusion is well founded on those.
LEMMA LatestIs ==
  ASSUME NEW n \in Nat, NEW I \in SUBSET (1..n), I # {}
  PROVE  Latest(I) \in I /\ \A j \in I : j <= Latest(I)
<1> DEFINE T == {(i + 1)..n : i \in I}
<1>1. T \subseteq FiniteSubsetsOf(Nat)
  <2> SUFFICES ASSUME NEW i \in I PROVE (i + 1)..n \in FiniteSubsetsOf(Nat)
    OBVIOUS
  <2>1. IsFiniteSet((i + 1)..n)
    BY FS_Interval
  <2> QED
    BY <2>1 DEF FiniteSubsetsOf
<1>2. PICK x \in T : \A y \in T : <<y, x>> \notin StrictSubsetOrdering(Nat)
  <2>1. T # {}
    OBVIOUS
  <2> HIDE DEF T
  <2> QED
    BY <1>1, <2>1, FS_StrictSubsetOrderingWellFounded, WFMin
<1>3. PICK m \in I : x = (m + 1)..n
  OBVIOUS
<1>4. ASSUME NEW j \in I, ~(j <= m) PROVE FALSE
  <2>1. (j + 1)..n \in SUBSET Nat /\ (m + 1)..n \in SUBSET Nat /\ (j + 1)..n \subseteq (m + 1)..n
    BY <1>4
  <2>2. j \in (m + 1)..n /\ j \notin (j + 1)..n
    BY <1>4
  <2>3. <<(j + 1)..n, (m + 1)..n>> \in StrictSubsetOrdering(Nat)
    BY <2>1, <2>2 DEF StrictSubsetOrdering
  <2> QED
    BY <1>2, <1>3, <2>3
<1> QED
  BY <1>4 DEF Latest

\* An append leaves what was there where it was.
LEMMA Appended ==
  ASSUME \E S : Lines(S), NEW l
  PROVE  /\ Len(file) \in Nat /\ DOMAIN file = 1..Len(file)
         /\ DOMAIN Append(file, l) = 1..(Len(file) + 1)
         /\ Append(file, l)[Len(file) + 1] = l
         /\ \A i \in 1..Len(file) : Append(file, l)[i] = file[i]
<1>1. PICK S : file \in Seq(S)
  BY DEF Lines
<1>2. file \in Seq(S \cup {l}) /\ l \in S \cup {l}
  BY <1>1, SeqMonotonic
<1> DEFINE T == S \cup {l}
<1> HIDE DEF T
<1> QED
  BY <1>2 DEF T

\* A record of a subject that has started, no earlier than its start.
Entry(l) ==
  /\ l.event \in {"open", "close"} /\ l.uid \in Subjects /\ l.at \in Int
  /\ l.uid \in Pods => Started(l.uid) /\ world[l.uid].start <= l.at

LEMMA EntryAppended ==
  ASSUME LedgerInv, EntriesFit, NEW l, Entry(l), file' = Append(file, l), UNCHANGED world
  PROVE  EntriesFit'
<1>1. /\ Len(file) \in Nat /\ DOMAIN file = 1..Len(file)
      /\ DOMAIN Append(file, l) = 1..(Len(file) + 1)
      /\ Append(file, l)[Len(file) + 1] = l
      /\ \A i \in 1..Len(file) : Append(file, l)[i] = file[i]
  BY Appended DEF LedgerInv
<1>2. \A i \in DOMAIN file' : file'[i] = l \/ (i \in DOMAIN file /\ file'[i] = file[i])
  BY <1>1
<1> QED
  BY <1>2 DEF EntriesFit, Entry, Started

\* An append keeps ExactlyOnce, if it does for the line appended.
LEMMA OnceAppended ==
  ASSUME LedgerInv, ExactlyOnce, NEW l, file' = Append(file, l),
         LET before == {j \in DOMAIN file : file[j].uid = l.uid} IN
           l.event = "open" /\ before # {} =>
             LET last == file[Latest(before)] IN
             /\ last.event = "close"
             /\ l.at >= last.at /\ (l.uid \in Pods => l.at = last.at)
  PROVE  ExactlyOnce'
<1> DEFINE Before(f, u, i) == {j \in 1..(i - 1) : f[j].uid = u}
<1>1. /\ Len(file) \in Nat /\ DOMAIN file = 1..Len(file)
      /\ DOMAIN Append(file, l) = 1..(Len(file) + 1)
      /\ Append(file, l)[Len(file) + 1] = l
      /\ \A i \in 1..Len(file) : Append(file, l)[i] = file[i]
  BY Appended DEF LedgerInv
<1> SUFFICES ASSUME NEW u \in Subjects, NEW i \in Of(file', u, "open"), Before(file', u, i) # {}
             PROVE  LET last == file'[Latest(Before(file', u, i))] IN
                    /\ last.event = "close"
                    /\ file'[i].at >= last.at /\ (u \in Pods => file'[i].at = last.at)
  BY DEF ExactlyOnce
<1>2. i \in 1..(Len(file) + 1) /\ i - 1 \in Nat /\ i - 1 <= Len(file)
  BY <1>1 DEF Of
<1>3. Before(file', u, i) = Before(file, u, i)
  BY <1>1, <1>2
<1>4. Latest(Before(file, u, i)) \in 1..(i - 1)
  <2> DEFINE B == Before(file, u, i)
  <2>1. B \in SUBSET (1..(i - 1)) /\ B # {}
    BY <1>3
  <2> HIDE DEF B
  <2>2. Latest(B) \in B
    BY <1>2, <2>1, LatestIs
  <2> QED
    BY <2>1, <2>2 DEF B
<1>5. file'[Latest(Before(file', u, i))] = file[Latest(Before(file, u, i))]
  <2>1. Latest(Before(file, u, i)) \in 1..Len(file)
    BY <1>1, <1>2, <1>4
  <2>2. Latest(Before(file', u, i)) = Latest(Before(file, u, i))
    BY <1>3
  <2> QED
    BY <1>1, <2>1, <2>2
<1>6. CASE i = Len(file) + 1
  <2>1. file'[i] = l /\ l.uid = u /\ l.event = "open"
    BY <1>1, <1>6 DEF Of
  <2>2. Before(file, u, i) = {j \in DOMAIN file : file[j].uid = l.uid}
    BY <1>1, <1>6, <2>1
  <2> QED
    BY <1>3, <1>5, <2>1, <2>2
<1>7. CASE i # Len(file) + 1
  <2>1. i \in Of(file, u, "open") /\ file'[i] = file[i]
    BY <1>1, <1>2, <1>7 DEF Of
  <2> QED
    BY <1>3, <1>5, <2>1 DEF ExactlyOnce
<1> QED
  BY <1>6, <1>7

\* What _open() writes: after a close of the same uid, where that one ended.
LEMMA OpenKeeps ==
  ASSUME LedgerInv, WorldFits, EntriesFit, ExactlyOnce, records = file,
         NEW u \in Subjects, u \notin OpenUids(records),
         NEW at \in Int, u \in Pods => Started(u) /\ at = world[u].start,
         file' = Append(file, OpenLine(u, at)), UNCHANGED world
  PROVE  EntriesFit' /\ ExactlyOnce'
<1> DEFINE l == OpenLine(u, at)
           before == {j \in DOMAIN file : file[j].uid = u}
           closes == Of(file, u, "close")
           m == Latest(before)
<1>1. l.event = "open" /\ l.uid = u /\ l.at = Floor(u, at)
  BY DEF OpenLine, Line
<1>2. DOMAIN file = 1..Len(file) /\ Len(file) \in Nat
  BY Appended DEF LedgerInv
<1>3. closes # {} => Latest(closes) \in closes /\ \A j \in closes : j <= Latest(closes)
  <2>1. closes \in SUBSET (1..Len(file))
    BY <1>2 DEF Of
  <2> HIDE DEF closes
  <2> QED
    BY <1>2, <2>1, LatestIs
<1>4. before # {} => m \in before /\ \A j \in before : j <= m
  <2>1. before \in SUBSET (1..Len(file))
    BY <1>2
  <2> HIDE DEF before
  <2> QED
    BY <1>2, <2>1, LatestIs DEF m
<1>5. Floor(u, at) \in Int /\ Floor(u, at) >= at
  BY <1>3 DEF Floor, Closed, LastClose, EntriesFit, Of
<1>6. Entry(l)
  <2>1. u \in Pods => world[u].start \in Int
    BY DEF WorldFits, Lifetime
  <2> HIDE DEF l
  <2> QED
    BY <1>1, <1>5, <2>1 DEF Entry, Subjects
<1>7. ASSUME before # {}
      PROVE  file[m].event = "close" /\ l.at >= file[m].at /\ (u \in Pods => l.at = file[m].at)
  <2> HIDE DEF l, m
  <2>1. m \in DOMAIN file /\ file[m].uid = u
    BY <1>4, <1>7
  <2>2. file[m].event = "close"
    <3>1. SUFFICES ASSUME file[m].event = "open" PROVE FALSE
      BY <2>1 DEF EntriesFit
    <3>2. m \in Of(file, u, "open")
      BY <2>1, <3>1 DEF Of
    <3>3. \A j \in closes : j <= m /\ j # m
      BY <1>4, <1>7, <3>1 DEF Of
    <3>4. \A j \in closes : j < m
      BY <1>2, <2>1, <3>3 DEF Of
    <3> QED
      BY <3>2, <3>4 DEF OpenUids
  <2>3. Latest(closes) = m
    <3>1. m \in closes
      BY <2>1, <2>2 DEF Of
    <3>2. Latest(closes) \in before
      BY <1>3, <3>1 DEF Of
    <3>3. m <= Latest(closes) /\ Latest(closes) <= m
      BY <1>3, <1>4, <3>1, <3>2
    <3> QED
      BY <1>2, <3>2, <3>3, <2>1
  <2>4. Closed(file, u) /\ LastClose(file, u) = file[m].at
    BY <2>1, <2>2, <2>3 DEF Closed, LastClose, Of
  <2>5. file[m].at \in Int /\ (u \in Pods => at <= file[m].at)
    BY <2>1 DEF EntriesFit
  <2> QED
    BY <1>1, <2>2, <2>4, <2>5 DEF Floor
<1>8. EntriesFit'
  <2> HIDE DEF l
  <2> QED
    BY <1>6, EntryAppended DEF l
<1>9. ExactlyOnce'
  <2>1. l.event = "open" /\ {j \in DOMAIN file : file[j].uid = l.uid} # {} =>
          LET last == file[Latest({j \in DOMAIN file : file[j].uid = l.uid})] IN
          /\ last.event = "close"
          /\ l.at >= last.at /\ (l.uid \in Pods => l.at = last.at)
    BY <1>1, <1>7
  <2> HIDE DEF l
  <2> QED
    BY <2>1, OnceAppended DEF l
<1> QED
  BY <1>8, <1>9

\* Nothing is written, and what has started stays started.
LEMMA FileKept ==
  ASSUME MeterInv, UNCHANGED file,
         \A u \in Subjects : Started(u) => Started(u)' /\ world'[u].start = world[u].start
  PROVE  EntriesFit' /\ ExactlyOnce'
<1>1. ExactlyOnce'
  BY DEF MeterInv, ExactlyOnce, Of
<1>2. EntriesFit'
  BY MeterConstants DEF MeterInv, EntriesFit, Subjects
<1> QED
  BY <1>1, <1>2

LEMMA NoCall == Subjects \cap {"idle", "list", "pods", "claims", "closing", "down"} = {}
BY MeterConstants DEF Calls

\* An instant noted for one subject, or the noting of an end.
LEMMA SeenNoted ==
  ASSUME MeterInv, UNCHANGED <<world, seenFile>>, NEW u \in Subjects, NEW t \in Int,
         seen' = [seen EXCEPT ![u] = t], u \in Pods => Later(u, t)
  PROVE  SeenFits'
<1>1. seen \in [Subjects -> Int]
  BY DEF MeterInv, SeenFits
<1>2. seen' \in [Subjects -> Int] /\ \A w \in Subjects : seen'[w] = IF w = u THEN t ELSE seen[w]
  BY <1>1
<1>3. \A w \in Pods : w \in Subjects
  BY DEF Subjects
<1> QED
  BY <1>2, <1>3 DEF MeterInv, SeenFits, Later, Started

LEMMA NeverLater == Never \in Int /\ \A u : Later(u, Never)
BY DEF Never, Later

\* From the wake-up to the reading of the clock, and the other lists.
LEMMA ListsFit ==
  ASSUME MeterInv, LedgerInv',
         \/ Wake \/ TakeNow \/ ListClaims \/ ClaimsFail \/ CloseLoop
         \/ \E u \in Subjects : ListPods(u)
  PROVE  MeterInv'
<1>1. /\ UNCHANGED <<now, world, file, records, seen, seenFile>>
      /\ pc # "down"
  BY DEF Wake, TakeNow, ListClaims, ClaimsFail, CloseLoop, ListPods, ledger
<1>2. WorldFits' /\ SeenFits'
  BY <1>1 DEF MeterInv, WorldFits, SeenFits, Started, Later
<1>3. EntriesFit' /\ ExactlyOnce'
  BY <1>1, FileKept DEF Started
<1>4. ViewFits' /\ TodoFits'
  <2>1. CASE Wake
    BY <1>1, <2>1, NoCall DEF Wake, MeterInv, ViewFits, TodoFits, Started
  <2>2. CASE TakeNow
    <3>1. pc' = "pods" /\ clock' = now /\ view' = view
      BY <2>2 DEF TakeNow
    <3>2. \A u \in todo' : u \in Pods /\ Listed(view[u])
      BY <2>2 DEF TakeNow, Recordable, Listed, Resident, Terminal
    <3> QED
      BY <1>1, <3>1, <3>2, NoCall DEF MeterInv, WorldFits, ViewFits, TodoFits, Started, Subjects
  <2>3. CASE ListClaims
    <3>1. pc' = "claims" /\ clock' = clock
      BY <2>3 DEF ListClaims
    <3>2. PICK names : /\ view' = [u \in Subjects |-> IF u \in Claims \cap names THEN world[u]
                                                       ELSE view[u]]
                       /\ todo' = {u \in Claims \cap names : Resident(world[u])}
      BY <2>3 DEF ListClaims
    <3>3. ViewFits'
      BY <1>1, <3>1, <3>2, NoCall DEF MeterInv, WorldFits, ViewFits, Started, Listed, EndsLater
    <3>4. TodoFits'
      BY <1>1, <3>1, <3>2, NoCall DEF TodoFits, Subjects
    <3> QED
      BY <3>3, <3>4
  <2>4. CASE ClaimsFail
    BY <1>1, <2>4, NoCall DEF ClaimsFail, MeterInv, ViewFits, TodoFits, Started
  <2>5. CASE CloseLoop
    BY <1>1, <2>5, NoCall DEF CloseLoop, MeterInv, ViewFits, TodoFits, Started, OpenUids
  <2>6. CASE \E u \in Subjects : ListPods(u)
    <3>1. PICK u \in Subjects : ListPods(u)
      BY <2>6
    <3>2. /\ pc = "list" /\ pc' = "list" /\ clock' = clock
          /\ view' = [view EXCEPT ![u] = world[u]]
      BY <3>1 DEF ListPods
    <3> QED
      BY <1>1, <3>2, NoCall
      DEF MeterInv, WorldFits, ViewFits, TodoFits, Started, Listed, EndsLater
  <2> QED
    BY <2>1, <2>2, <2>3, <2>4, <2>5, <2>6
<1> QED
  BY <1>2, <1>3, <1>4 DEF MeterInv

\* A pod that is still there is noted at the tick's clock.
LEMMA SeesFit ==
  ASSUME MeterInv, LedgerInv', NEW u \in Subjects, SeeSubject(u)
  PROVE  MeterInv'
<1>1. /\ UNCHANGED <<now, world, file, records, seenFile, pc, view, clock>>
      /\ seen' = [seen EXCEPT ![u] = clock] /\ pc \in {"pods", "claims"}
      /\ u \in todo /\ todo' = todo \ {u}
  BY DEF SeeSubject, ledger
<1>2. u \in Pods => Started(u) /\ world[u].start <= clock
  BY <1>1, MeterConstants DEF MeterInv, TodoFits, ViewFits
<1>3. SeenFits'
  <2>1. clock \in Int /\ (u \in Pods => Later(u, clock))
    BY <1>2 DEF MeterInv, ViewFits, Later
  <2> QED
    BY <1>1, <2>1, SeenNoted
<1>4. WorldFits' /\ ViewFits' /\ TodoFits'
  BY <1>1, NoCall DEF MeterInv, WorldFits, ViewFits, TodoFits, Started
<1>5. EntriesFit' /\ ExactlyOnce'
  BY <1>1, FileKept DEF Started
<1> QED
  BY <1>3, <1>4, <1>5 DEF MeterInv

\* _open(), and the pod that is recorded whole.
LEMMA OpensFit ==
  ASSUME MeterInv, LedgerInv', NEW u \in Subjects, OpenInterval(u)
  PROVE  MeterInv'
<1> DEFINE at == IF u \in Pods THEN view[u].start ELSE clock
<1>1. /\ pc \in {"pods", "claims"} /\ u \in todo /\ u \notin OpenUids(records)
      /\ Recorded(OpenLine(u, at))
      /\ UNCHANGED <<now, world, seenFile, view, clock>>
      /\ \/ /\ Resident(view[u]) /\ todo' = todo \ {u} /\ pc' = pc
            /\ seen' = [seen EXCEPT ![u] = clock]
         \/ /\ ~Resident(view[u]) /\ pc' = u /\ todo' = todo /\ seen' = seen
  BY DEF OpenInterval, OpenDue
<1>2. /\ records = file /\ torn = FALSE
      /\ file' = Append(file, OpenLine(u, at)) /\ records' = file'
  <2>1. records = file /\ torn = FALSE
    BY <1>1 DEF MeterInv, LedgerInv
  <2> HIDE DEF at
  <2> QED
    BY <1>1, <2>1 DEF Recorded, Written
<1>3. u \in Pods =>
        Listed(view[u]) /\ Started(u) /\ view[u].start = world[u].start
        /\ world[u].start <= clock
  BY <1>1, MeterConstants DEF MeterInv, TodoFits, ViewFits
<1>4. at \in Int
  BY DEF MeterInv, ViewFits, Lifetime
<1>5. EntriesFit' /\ ExactlyOnce'
  <2>1. u \in Pods => Started(u) /\ at = world[u].start
    BY <1>3
  <2> HIDE DEF at
  <2> QED
    BY <1>1, <1>2, <1>4, <2>1, OpenKeeps DEF MeterInv
<1>6. SeenFits'
  <2>1. clock \in Int /\ (u \in Pods => Later(u, clock))
    BY <1>3 DEF MeterInv, ViewFits, Later
  <2>2. CASE seen' = [seen EXCEPT ![u] = clock]
    BY <1>1, <2>1, <2>2, SeenNoted
  <2>3. CASE seen' = seen
    BY <1>1, <2>3 DEF MeterInv, SeenFits, Later, Started
  <2> QED
    BY <1>1, <2>2, <2>3
<1>7. Of(records, u, "open")' # {}
  <2> DEFINE l == OpenLine(u, at)
  <2>1. l.uid = u /\ l.event = "open"
    BY DEF OpenLine, Line
  <2> HIDE DEF l
  <2>2. file' = Append(file, l)
    BY <1>2 DEF l
  <2>3. Len(file) + 1 \in DOMAIN file' /\ file'[Len(file) + 1] = l
    BY <2>2, Appended DEF MeterInv, LedgerInv
  <2> QED
    BY <1>2, <2>1, <2>3 DEF Of
<1>8. TodoFits'
  <2>1. CASE pc = "pods"
    BY <1>1, <1>7, <2>1, NoCall DEF MeterInv, TodoFits
  <2>2. CASE pc = "claims"
    BY <1>1, <2>2, NoCall DEF MeterInv, TodoFits
  <2> QED
    BY <1>1, <2>1, <2>2
<1>9. WorldFits' /\ ViewFits'
  <2>1. WorldFits'
    BY <1>1 DEF MeterInv, WorldFits, Started
  <2>2. pc' # pc => pc = "pods"
    BY <1>1 DEF MeterInv, TodoFits
  <2> QED
    BY <1>1, <2>1, <2>2, NoCall DEF MeterInv, ViewFits, Started
<1> QED
  BY <1>5, <1>6, <1>8, <1>9 DEF MeterInv

\* _close(), with the time of the end, of the last sight or of the open.
LEMMA ClosesFit ==
  ASSUME MeterInv, LedgerInv', NEW u \in Subjects, CloseInterval(u)
  PROVE  MeterInv'
<1> DEFINE at == CloseAt(u)
           l  == CloseLine(u, at)
<1>1. /\ pc = u \/ (pc = "closing" /\ u \in todo)
      /\ Recorded(l)
      /\ UNCHANGED <<now, world, seenFile, view, clock>>
      /\ seen' = [seen EXCEPT ![u] = Never]
      /\ todo' = todo \ {u} /\ pc' = IF pc = u THEN "pods" ELSE pc
  BY DEF CloseInterval, CloseDue
<1>2. Of(records, u, "open") # {}
  BY <1>1 DEF MeterInv, TodoFits
<1>3. records = file /\ torn = FALSE
  BY <1>1, NoCall DEF MeterInv, LedgerInv
<1>4. file' = Append(file, l) /\ records' = file'
  <2> HIDE DEF l
  <2> QED
    BY <1>1, <1>3 DEF Recorded, Written
<1>5. /\ DOMAIN file = 1..Len(file) /\ Len(file) \in Nat
      /\ DOMAIN file' = 1..(Len(file) + 1)
      /\ \A i \in 1..Len(file) : file'[i] = file[i]
  <2> HIDE DEF l
  <2> QED
    BY <1>4, Appended DEF MeterInv, LedgerInv
<1>6. /\ OpenedAt(records, u) \in Int
      /\ u \in Pods => Started(u) /\ world[u].start <= OpenedAt(records, u)
  <2> DEFINE O == Of(file, u, "open")
  <2>1. O \in SUBSET (1..Len(file)) /\ O # {}
    BY <1>2, <1>3, <1>5 DEF Of
  <2>2. Latest(O) \in O
    <3> HIDE DEF O
    <3> QED
      BY <1>5, <2>1, LatestIs
  <2> QED
    BY <1>3, <2>2 DEF OpenedAt, Of, MeterInv, EntriesFit
<1>7. at \in Int /\ (u \in Pods => Started(u) /\ world[u].start <= at)
  <2>1. CASE Terminal(view[u])
    <3>1. at = EndTime(view[u])
      BY <2>1 DEF CloseAt
    <3>2. view[u] \in Lifetime /\ Started(u) /\ EndsLater(view[u])
          /\ view[u].start = world[u].start /\ world[u].start <= now
      BY <2>1 DEF MeterInv, ViewFits, WorldFits, Listed, Terminal
    <3>3. CASE view[u].told
      BY <3>1, <3>2, <3>3 DEF EndTime, EndsLater, Lifetime
    <3>4. CASE ~view[u].told /\ view[u].due # Never
      <4>1. EndTime(view[u]) = view[u].due
        BY <3>4 DEF EndTime
      <4> QED
        BY <3>1, <3>2, <3>4, <4>1 DEF EndsLater, Lifetime
    <3>5. CASE ~view[u].told /\ ~(view[u].due # Never)
      <4>1. EndTime(view[u]) = now
        BY <3>5 DEF EndTime
      <4> QED
        BY <3>1, <3>2, <4>1 DEF MeterInv, WorldFits
    <3> QED
      BY <3>3, <3>4, <3>5
  <2>2. CASE ~Terminal(view[u]) /\ seen[u] # Never
    <3>1. at = seen[u]
      BY <2>2 DEF CloseAt
    <3> QED
      BY <2>2, <3>1 DEF MeterInv, SeenFits, Later
  <2>3. CASE ~Terminal(view[u]) /\ ~(seen[u] # Never)
    <3>1. at = OpenedAt(records, u)
      BY <2>3 DEF CloseAt
    <3> QED
      BY <1>6, <3>1
  <2> QED
    BY <2>1, <2>2, <2>3
<1>8. l.event = "close" /\ l.uid = u /\ l.at = at
  BY DEF CloseLine, Line
<1>9. EntriesFit' /\ ExactlyOnce'
  <2> HIDE DEF at, l
  <2>1. Entry(l)
    BY <1>7, <1>8 DEF Entry
  <2> QED
    BY <1>1, <1>4, <1>8, <2>1, EntryAppended, OnceAppended DEF MeterInv
<1>10. WorldFits' /\ SeenFits'
  <2>1. WorldFits'
    BY <1>1 DEF MeterInv, WorldFits, Started
  <2>2. SeenFits'
    BY <1>1, NeverLater, SeenNoted
  <2> QED
    BY <2>1, <2>2
<1>11. ViewFits'
  BY <1>1, NoCall DEF MeterInv, ViewFits, Started
<1>12. TodoFits'
  <2>1. \A w : Of(records, w, "open") \subseteq Of(records, w, "open")'
    <3> HIDE DEF l
    <3> QED
      BY <1>3, <1>4, <1>5 DEF Of
  <2> QED
    BY <1>1, <2>1, NoCall DEF MeterInv, TodoFits
<1> QED
  BY <1>9, <1>10, <1>11, <1>12 DEF MeterInv

\* The end of a tick, a failed one and a crash: what was listed is forgotten.
LEMMA EndsFit ==
  ASSUME AppendErrors \subseteq {"nothing"}, MeterInv, LedgerInv',
         SaveSeen \/ TickFails \/ Crash
  PROVE  MeterInv'
<1>1. /\ UNCHANGED <<now, world, file>> /\ pc' \in {"idle", "down"} /\ todo' = {}
      /\ clock' \in Int /\ view' = [u \in Subjects |-> Absent]
  <2>1. CASE SaveSeen
    BY <2>1 DEF SaveSeen, EndTick, ledger
  <2>2. CASE TickFails
    BY <2>2 DEF TickFails, EndTick, Refused, ledger
  <2>3. CASE Crash
    BY <2>3 DEF Crash
  <2> QED
    BY <2>1, <2>2, <2>3
<1>2. SeenFits'
  <2>1. CASE SaveSeen
    BY <2>1 DEF SaveSeen, MeterInv, SeenFits, Later, Started
  <2>2. CASE TickFails
    BY <2>2 DEF TickFails, MeterInv, SeenFits, Later, Started
  <2>3. CASE Crash
    <3>1. seen' = [u \in Subjects |-> Never] /\ UNCHANGED <<world, seenFile>>
      BY <2>3 DEF Crash
    <3>2. \A u \in Pods : seen'[u] = Never
      BY <3>1 DEF Subjects
    <3> QED
      BY <3>1, <3>2, NeverLater DEF MeterInv, SeenFits, Later, Started
  <2> QED
    BY <2>1, <2>2, <2>3
<1>3. WorldFits'
  BY <1>1 DEF MeterInv, WorldFits, Started
<1>4. ViewFits'
  BY <1>1, NoCall DEF ViewFits, Absent, Lifetime, Listed, Never
<1>5. TodoFits'
  BY <1>1, NoCall DEF TodoFits
<1>6. EntriesFit' /\ ExactlyOnce'
  BY <1>1, FileKept DEF Started
<1> QED
  BY <1>2, <1>3, <1>4, <1>5, <1>6 DEF MeterInv

\* A start reads back what the last tick that ended had noted.
LEMMA LoadFits ==
  ASSUME MeterInv, LedgerInv', Load
  PROVE  MeterInv'
<1>1. /\ UNCHANGED <<now, world, file, seenFile, view, todo, clock>> /\ pc' = "idle"
      /\ seen' = [u \in Subjects |-> IF u \in OpenUids(file) THEN seenFile[u] ELSE Never]
  BY DEF Load
<1>2. WorldFits' /\ ViewFits' /\ TodoFits'
  BY <1>1, NoCall DEF MeterInv, WorldFits, ViewFits, TodoFits, Started
<1>3. SeenFits'
  <2>1. seenFile \in [Subjects -> Int]
    BY DEF MeterInv, SeenFits
  <2>2. \A u \in Subjects : seen'[u] = Never \/ seen'[u] = seenFile[u]
    BY <1>1
  <2>3. seen' \in [Subjects -> Int]
    BY <1>1, <2>1, NeverLater
  <2>4. \A u \in Pods : Later(u, seenFile[u]) /\ Later(u, seen'[u])
    BY <2>2, NeverLater DEF MeterInv, SeenFits, Subjects
  <2> QED
    BY <1>1, <2>1, <2>3, <2>4 DEF SeenFits, Later, Started
<1>4. EntriesFit' /\ ExactlyOnce'
  BY <1>1, FileKept DEF Started
<1> QED
  BY <1>2, <1>3, <1>4 DEF MeterInv

\* What the API server may say of a subject that has started.
Begun(p) == p \in Lifetime /\ p.phase # "absent" /\ EndsLater(p)

LEMMA Becoming ==
  ASSUME WorldFits, NEW u \in Subjects, Starts(u) \/ Ends(u) \/ Deleted(u) \/ Gone(u)
  PROVE  \E p : /\ Begun(p) /\ p.start <= now /\ (Started(u) => p.start = world[u].start)
                /\ Becomes(u, p)
<1>1. now \in Int /\ world[u] \in Lifetime
  BY DEF WorldFits
<1>2. Started(u) => world[u].start <= now /\ EndsLater(world[u])
  BY DEF WorldFits
<1>3. CASE Starts(u)
  <2> DEFINE p == [Absent EXCEPT !.phase = "running", !.start = now]
  <2>1. Absent \in Lifetime /\ ~Absent.told /\ Absent.due = Never
    BY NeverLater DEF Absent, Lifetime
  <2>2. Becomes(u, p) /\ ~Started(u)
    BY <1>3 DEF Starts, Started
  <2>3. p \in Lifetime /\ p.phase = "running" /\ p.start = now /\ ~p.told /\ p.due = Never
    BY <1>1, <2>1 DEF Lifetime
  <2> HIDE DEF p
  <2>4. Begun(p)
    BY <2>3 DEF Begun, EndsLater
  <2> QED
    BY <1>1, <2>2, <2>3, <2>4
<1>4. CASE Ends(u)
  <2>1. PICK told \in BOOLEAN :
          Becomes(u, [world[u] EXCEPT !.phase = "ended", !.stop = now, !.told = told])
    BY <1>4, Zenon DEF Ends
  <2> DEFINE p == [world[u] EXCEPT !.phase = "ended", !.stop = now, !.told = told]
  <2>2. Started(u)
    BY <1>4, Zenon DEF Ends, Resident, Started
  <2>3. p \in Lifetime /\ p.phase = "ended" /\ p.stop = now /\ p.start = world[u].start
        /\ p.due = world[u].due
    BY <1>1, <2>1 DEF Lifetime
  <2>4. Becomes(u, p)
    BY <2>1
  <2> HIDE DEF p
  <2>5. Begun(p) /\ p.start <= now
    BY <1>1, <1>2, <2>2, <2>3 DEF Begun, EndsLater
  <2> QED
    BY <2>3, <2>4, <2>5
<1>5. CASE Deleted(u)
  <2>1. PICK g \in Graces : Becomes(u, [world[u] EXCEPT !.due = now + g])
    BY <1>5 DEF Deleted
  <2> DEFINE p == [world[u] EXCEPT !.due = now + g]
  <2>2. Started(u)
    BY <1>5 DEF Deleted, Resident, Started
  <2>3. g \in Nat
    BY <2>1, MeterConstants
  <2>4. p \in Lifetime /\ p.phase = world[u].phase /\ p.stop = world[u].stop
        /\ p.start = world[u].start /\ p.told = world[u].told /\ p.due = now + g
    BY <1>1, <2>3 DEF Lifetime
  <2>5. Becomes(u, p)
    BY <2>1
  <2> HIDE DEF p
  <2>6. world[u].start \in Int /\ world[u].start <= now + g
    BY <1>1, <1>2, <2>2, <2>3 DEF Lifetime
  <2>7. Begun(p)
    BY <1>2, <2>2, <2>4, <2>6 DEF Begun, EndsLater, Started
  <2> QED
    BY <1>2, <2>2, <2>4, <2>5, <2>7
<1>6. CASE Gone(u)
  <2>1. Started(u)
    BY <1>6 DEF Gone, Resident, Terminal, Started
  <2>2. CASE Terminal(world[u]) /\ Becomes(u, [world[u] EXCEPT !.phase = "gone"])
    <3> DEFINE p == [world[u] EXCEPT !.phase = "gone"]
    <3>1. p \in Lifetime /\ p.phase = "gone" /\ p.stop = world[u].stop
          /\ p.start = world[u].start /\ p.told = world[u].told /\ p.due = world[u].due
      BY <1>1 DEF Lifetime
    <3>2. Becomes(u, p)
      BY <2>2
    <3> HIDE DEF p
    <3>3. Begun(p)
      BY <1>2, <2>1, <3>1 DEF Begun, EndsLater
    <3> QED
      BY <1>2, <2>1, <3>1, <3>2, <3>3
  <2>3. CASE Resident(world[u])
             /\ Becomes(u, [world[u] EXCEPT !.phase = "vanished", !.stop = now])
    <3> DEFINE p == [world[u] EXCEPT !.phase = "vanished", !.stop = now]
    <3>1. p \in Lifetime /\ p.phase = "vanished" /\ p.stop = now
          /\ p.start = world[u].start /\ p.told = world[u].told /\ p.due = world[u].due
      BY <1>1 DEF Lifetime
    <3>2. Becomes(u, p)
      BY <2>3
    <3> HIDE DEF p
    <3>3. Begun(p)
      BY <1>1, <1>2, <2>1, <3>1 DEF Begun, EndsLater
    <3> QED
      BY <1>2, <2>1, <3>1, <3>2, <3>3
  <2> QED
    BY <1>6, <2>2, <2>3 DEF Gone
<1> QED
  BY <1>3, <1>4, <1>5, <1>6

\* The cluster: whoever has started keeps its start.
LEMMA ClusterFits ==
  ASSUME MeterInv, LedgerInv', Cluster \/ TimePasses
  PROVE  MeterInv'
<1>1. /\ UNCHANGED <<file, records, seen, seenFile, pc, view, todo, clock>>
      /\ WorldFits'
      /\ \A u \in Subjects : Started(u) => Started(u)' /\ world'[u].start = world[u].start
  <2>1. CASE TimePasses
    <3>1. /\ now' = now + 1 /\ world' = world
          /\ UNCHANGED <<file, records, seen, seenFile, pc, view, todo, clock>>
      BY <2>1 DEF TimePasses, ledger, tick
    <3>2. WorldFits'
      BY <3>1 DEF MeterInv, WorldFits, Started, Lifetime
    <3> QED
      BY <3>1, <3>2 DEF Started
  <2>2. CASE Cluster
    <3>1. PICK u \in Subjects : Starts(u) \/ Ends(u) \/ Deleted(u) \/ Gone(u)
      BY <2>2 DEF Cluster
    <3>2. PICK p : /\ Begun(p) /\ p.start <= now /\ (Started(u) => p.start = world[u].start)
                   /\ Becomes(u, p)
      BY <3>1, Becoming DEF MeterInv
    <3>3. /\ now' = now /\ world' = [world EXCEPT ![u] = p]
          /\ UNCHANGED <<file, records, seen, seenFile, pc, view, todo, clock>>
      BY <3>2 DEF Becomes, ledger, tick
    <3>4. \A w \in Subjects : world'[w] = IF w = u THEN p ELSE world[w]
      BY <3>3 DEF MeterInv, WorldFits
    <3>5. world' \in [Subjects -> Lifetime]
      BY <3>2, <3>3 DEF MeterInv, WorldFits, Begun
    <3>6. WorldFits'
      BY <3>2, <3>3, <3>4, <3>5 DEF MeterInv, WorldFits, Begun, Started
    <3> QED
      BY <3>2, <3>3, <3>4, <3>6 DEF Begun, Started
  <2> QED
    BY <2>1, <2>2
<1>3. ViewFits'
  BY <1>1 DEF MeterInv, ViewFits
<1>4. SeenFits'
  BY <1>1 DEF MeterInv, SeenFits, Later, Subjects
<1>5. TodoFits'
  BY <1>1 DEF MeterInv, TodoFits
<1>6. EntriesFit' /\ ExactlyOnce'
  BY <1>1, FileKept
<1> QED
  BY <1>1, <1>3, <1>4, <1>5, <1>6 DEF MeterInv

\* metering.py "EXACTLY-ONCE per pod": whatever lists and appends fail and
\* whenever the meter dies, a uid's opens and closes alternate on the disk and
\* no second of it is billed twice, provided a refused append wrote nothing.
THEOREM BilledOnce ==
  ASSUME AppendErrors \subseteq {"nothing"}
  PROVE  Spec => []ExactlyOnce
<1>1. Init => MeterInv
  <2> SUFFICES ASSUME Init PROVE MeterInv
    OBVIOUS
  <2>1. LedgerInv
    BY LedgerStarts
  <2>2. file = <<>> /\ DOMAIN file = {}
    BY DEF Init
  <2>3. EntriesFit /\ ExactlyOnce
    BY <2>2 DEF EntriesFit, ExactlyOnce, Of
  <2>4. WorldFits /\ ViewFits
    BY NoCall DEF Init, WorldFits, ViewFits, Lifetime, Absent, Started, Listed, Never
  <2>5. SeenFits /\ TodoFits
    BY NoCall DEF Init, SeenFits, TodoFits, Later, Never, Subjects
  <2> QED
    BY <2>1, <2>3, <2>4, <2>5 DEF MeterInv
<1>2. ASSUME MeterInv, [Next]_vars PROVE MeterInv'
  <2>1. LedgerInv'
    BY <1>2, LedgerSteps DEF MeterInv
  <2>2. CASE Meter
    BY <1>2, <2>1, <2>2, ListsFit, SeesFit, OpensFit, ClosesFit, EndsFit, LoadFits
    DEF Meter
  <2>3. CASE TickFails \/ Crash
    BY <1>2, <2>1, <2>3, EndsFit
  <2>4. CASE Cluster \/ TimePasses
    BY <1>2, <2>1, <2>4, ClusterFits
  <2>5. CASE UNCHANGED vars
    BY <1>2, <2>1, <2>5
    DEF vars, ledger, tick, MeterInv, WorldFits, ViewFits, SeenFits, TodoFits, EntriesFit,
        ExactlyOnce, Started, Later, Of
  <2> QED
    BY <1>2, <2>2, <2>3, <2>4, <2>5 DEF Next
<1>3. MeterInv => ExactlyOnce
  BY DEF MeterInv
<1> QED
  BY <1>1, <1>2, <1>3, PTL DEF Spec

=============================================================================
