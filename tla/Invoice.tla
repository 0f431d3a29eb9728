------------------------------ MODULE Invoice ------------------------------
(***************************************************************************)
(* billing/invoice.py: statements of consecutive windows, cut from a       *)
(* ledger that goes on growing.  The meter appends opens and closes, dated *)
(* now or earlier (Metering says how); the operator runs the tool for the  *)
(* next window once it is over, always with the same price book and the    *)
(* same reservation.  Prices are micro-dollars, amounts are cents, and the *)
(* exact fraction between them is a quotient of integers.                  *)
(***************************************************************************)
EXTENDS Integers, Sequences, FiniteSets, FiniteSetsExt

CONSTANTS
  Pods, Volumes,    \* the tenant's uids
  Reserved,         \* pods that run on a node of the tenant's reservation
  RateCards,        \* price books: sets of effective dates of a sku's rates
  Price(_, _),      \* micro-dollars of a kind of line at the rate of a date
  Units,            \* the gpus of a pod, the gibibytes of a volume
  Cent, Hour,       \* micro-dollars of a cent, seconds of an hour
  Reservations,     \* --dedicated-from, --dedicated-to
  Granularity,      \* bill_granularity_seconds
  Day,              \* seconds of a day
  DaysIn,           \* month -> how many days it has
  Scale,            \* parts a month is counted in: a day of it is so many
  Lag,              \* bound on how late the meter records
  Horizon,          \* bound on the clock
  MaxRecords        \* bound on the ledger

Uids == Pods \cup Volumes

ASSUME InvoiceConstants ==
  /\ Pods \cap Volumes = {} /\ "node" \notin Uids /\ Reserved \subseteq Pods
  /\ Reservations \subseteq [from : Nat, to : Nat]
  /\ Granularity \in Nat \ {0} /\ Day \in Nat \ {0} /\ Lag \in Nat /\ Horizon \in Nat /\ MaxRecords \in Nat
  /\ \A card \in RateCards : card \subseteq Nat
  /\ \A card \in RateCards : \A e \in card, k \in {"gpu", "volume", "node"} : Price(k, e) \in Nat
  /\ Units \in [Uids -> Nat \ {0}] /\ Cent \in Nat \ {0} /\ Hour \in Nat \ {0}
  /\ DaysIn \in Seq(Nat \ {0})
  \* A Fraction is exact: every month's length divides the number of parts.
  /\ Scale \in Nat \ {0} /\ \A m \in DOMAIN DaysIn : Scale % DaysIn[m] = 0

VARIABLES
  now,         \* the clock
  recs,        \* the ledger
  rates,       \* the effective dates of the price book
  reserved,    \* the reservation
  billedTo,    \* end of the last window
  lines,       \* the lines of every statement so far
  late         \* uids with a record dated before a statement that missed it

inputs == <<rates, reserved>>
vars   == <<now, recs, inputs, billedTo, lines, late>>

Never == -1

\* The pieces [a, b) falls into at the dates inside it.
Cuts(a, b, dates) == {a, b} \cup {e \in dates : a < e /\ e < b}
Pieces(C) == {p \in C \X C : p[1] < p[2] /\ \A c \in C : c <= p[1] \/ p[2] <= c}

\* The rate in force at x: its effective date, Never when there is none.
InForce(x) == IF \E e \in rates : e <= x THEN Max({e \in rates : e <= x}) ELSE Never

\* Mutant: the rate of the first second is the rate of them all.
OneSegment(a, b) == {[from |-> a, to |-> b, rate |-> InForce(a)]}

\* segments(): [a, b) at one rate each.
Segments(a, b) == {[from |-> p[1], to |-> p[2], rate |-> InForce(p[1])] : p \in Pieces(Cuts(a, b, rates))}

\* Months follow one another from day 0 on.
FirstDay(m) == SumFunctionOnSet(DaysIn, 1..(m - 1))

\* Mutant: every month is as long as the first.
FirstLength(d) == DaysIn[1]

\* The length of the month day d is in.
MonthLength(d) ==
  DaysIn[CHOOSE m \in DOMAIN DaysIn : FirstDay(m) <= d /\ d < FirstDay(m) + DaysIn[m]]

\* day_iter(): the UTC days [a, b) overlaps, each with the part of it.
Clip(a, b, x, y) == [from |-> IF a > x THEN a ELSE x, to |-> IF b < y THEN b ELSE y]
DayIter(a, b) ==
  [d \in {d \in 0..(Horizon \div Day) : d * Day < b /\ a < (d + 1) * Day}
     |-> Clip(a, b, d * Day, (d + 1) * Day)]

\* The shares of a price per month, each day at that of its own month.
MonthShare(a, b) ==
  LET part == DayIter(a, b) IN
  SumFunction([d \in DOMAIN part |-> (part[d].to - part[d].from) * (Scale \div MonthLength(d))])

\* intervals_for(): what the ledger says of each uid, closed or still open.
Closes(u) == {i \in DOMAIN recs : recs[i].uid = u /\ recs[i].event = "close"}
Opens(u)  == {i \in DOMAIN recs : recs[i].uid = u /\ recs[i].event = "open"}
OpenNow(u) == {i \in Opens(u) : \A j \in Closes(u) : j < i}

\* Mutant: what is still open is left to a later statement.
ClosedIntervals(u) == {[from |-> recs[i].opened, to |-> recs[i].at] : i \in Closes(u)}

Intervals(u) ==
  {[from |-> recs[i].opened, to |-> recs[i].at] : i \in Closes(u)}
    \cup {[from |-> recs[i].at, to |-> Never] : i \in OpenNow(u)}

\* Mutant: an open interval is billed to the time the tool is run.
ToRunTime(u, w0, w1) ==
  {i \in {Clip(i.from, IF i.to = Never THEN now ELSE i.to, w0, IF i.to = Never THEN now ELSE w1)
            : i \in Intervals(u)} : i.from < i.to}

\* Mutant: the part before the window is not cut off.
ToWindowEnd(u, w0, w1) ==
  {i \in {Clip(i.from, IF i.to = Never THEN w1 ELSE i.to, 0, w1) : i \in Intervals(u)} : i.from < i.to}

\* Clipped to the window [w0, w1); an open interval is billed to its end.
Windowed(u, w0, w1) ==
  {i \in {Clip(i.from, IF i.to = Never THEN w1 ELSE i.to, w0, w1) : i \in Intervals(u)} : i.from < i.to}

\* micros_to_dollars(): half a cent and more is a cent.
Cents(num, den) == (2 * num + den) \div (2 * den)

\* By the hour, or by the shares of a month; nothing without a rate of its own.
Amount(kind, u, p, rate, billed) ==
  CASE kind = "gpu"    -> Cents(billed * Units[u] * Price(kind, rate), Hour * Cent)
    [] kind = "volume" -> Cents(Units[u] * Price(kind, rate) * MonthShare(p.from, p.to), Day * Scale * Cent)
    [] kind = "node"   -> Cents(Price(kind, rate) * MonthShare(p.from, p.to), Day * Scale * Cent)
    [] OTHER           -> 0

\* A row, its amount rounded once as StatementWriter has it: a total is the
\* sum of the cents on the rows.
Line(kind, u, p, rate, billed) ==
  [kind |-> kind, uid |-> u, from |-> p.from, to |-> p.to, rate |-> rate, billed |-> billed,
   cents |-> Amount(kind, u, p, rate, billed)]

Span(w0, w1) == Clip(reserved.from, reserved.to, w0, w1)

\* A piece of a pod's interval the node-month pays for.
Covered(u, p, span) == u \in Reserved /\ span.from <= p[1] /\ p[2] <= span.to

RoundedUp(s) == ((s + Granularity - 1) \div Granularity) * Granularity

\* Mutant: an interval is inside the reservation or outside it.
Unsplit(u, i, span) == {<<i.from, i.to>>}

\* Split at the reservation's boundaries, then at the rates'.
Split(u, i, span) ==
  Pieces({i.from, i.to} \cup
         (IF u \in Reserved THEN {v \in {span.from, span.to} : i.from < v /\ v < i.to} ELSE {}))

PieceLines(u, p, span) ==
  IF Covered(u, p, span)
    THEN {Line("covered", u, [from |-> p[1], to |-> p[2]], Never, p[2] - p[1])}
    ELSE {Line(IF s.rate = Never THEN "unpriced" ELSE "gpu", u, s, s.rate,
               IF s.rate = Never THEN s.to - s.from ELSE RoundedUp(s.to - s.from))
           : s \in Segments(p[1], p[2])}

GpuLines(w0, w1) ==
  LET span == Span(w0, w1) IN
  UNION {UNION {PieceLines(u, p, span) : p \in UNION {Split(u, i, span) : i \in Windowed(u, w0, w1)}}
          : u \in Pods}

\* A volume by the gibibyte-month: no granularity, no reservation.
VolumeLines(w0, w1) ==
  UNION {{Line(IF s.rate = Never THEN "unpriced" ELSE "volume", u, s, s.rate, s.to - s.from)
           : s \in UNION {Segments(i.from, i.to) : i \in Windowed(u, w0, w1)}} : u \in Volumes}

\* The reserved node by the month, whatever ran on it.
NodeLines(w0, w1) ==
  LET span == Span(w0, w1) IN
  IF span.from >= span.to THEN {}
  ELSE {Line(IF s.rate = Never THEN "unpriced" ELSE "node", "node", s, s.rate, s.to - s.from)
         : s \in Segments(span.from, span.to)}

Statement(w0, w1) == GpuLines(w0, w1) \cup VolumeLines(w0, w1) \cup NodeLines(w0, w1)

Init ==
  /\ now = 0 /\ recs = <<>> /\ billedTo = 0 /\ lines = {} /\ late = {}
  /\ rates \in RateCards /\ reserved \in Reservations

\* main() for the next window, any time after its end.
Issue(w1) ==
  /\ billedTo < w1 /\ w1 <= now
  /\ lines' = lines \cup Statement(billedTo, w1) /\ billedTo' = w1
  /\ UNCHANGED <<now, recs, inputs, late>>

-----------------------------------------------------------------------------
(* The meter, which dates a record when it happened, not when it is told.   *)

Missed(u, at) == late' = IF at < billedTo THEN late \cup {u} ELSE late

LastAt(u) == IF Closes(u) = {} THEN 0 ELSE recs[Max(Closes(u))].at

RecordOpen(u, at) ==
  /\ Len(recs) < MaxRecords /\ OpenNow(u) = {} /\ LastAt(u) <= at /\ now - Lag <= at /\ at <= now
  /\ recs' = Append(recs, [event |-> "open", uid |-> u, at |-> at, opened |-> at])
  /\ Missed(u, at) /\ UNCHANGED <<now, inputs, billedTo, lines>>

\* A close before its open (pod_end_time of a re-opened pod) is left out: the
\* statements skip what lies between (invoice.py:348).
RecordClose(u, at) ==
  /\ \E i \in OpenNow(u) :
       /\ recs[i].at <= at /\ now - Lag <= at /\ at <= now
       /\ recs' = Append(recs, [event |-> "close", uid |-> u, at |-> at, opened |-> recs[i].at])
  /\ Missed(u, at) /\ UNCHANGED <<now, inputs, billedTo, lines>>

TimePasses == now < Horizon /\ now' = now + 1 /\ UNCHANGED <<recs, inputs, billedTo, lines, late>>

Next ==
  \/ TimePasses
  \/ \E w1 \in 1..Horizon : Issue(w1)
  \/ \E u \in Uids, at \in 0..Horizon : RecordOpen(u, at) \/ RecordClose(u, at)

Spec == Init /\ [][Next]_vars

-----------------------------------------------------------------------------
\* Types; and no line reaches past the windows billed so far.
InvoiceTypeOK ==
  /\ now \in 0..Horizon /\ billedTo \in 0..now /\ late \subseteq Uids
  /\ rates \in RateCards /\ reserved \in Reservations
  /\ \A l \in lines :
       /\ l.kind \in {"gpu", "covered", "unpriced", "volume", "node"}
       /\ l.uid \in Uids \cup {"node"} /\ 0 <= l.from /\ l.from < l.to /\ l.to <= billedTo

Covers(l, s) == l.from <= s /\ s < l.to
LinesAt(u, s) == {l \in lines : l.uid = u /\ Covers(l, s)}
Held(u, s) == \E i \in Intervals(u) : i.from <= s /\ (i.to = Never \/ s < i.to)

\* invoice.py:28 "the next window clips at its start, so nothing double-counts":
\* no second of a uid is on two lines, of one statement or of several.
OnceAtMost ==
  \A u \in Uids \cup {"node"}, s \in 0..(billedTo - 1) : Cardinality(LinesAt(u, s)) <= 1

\* Every second the ledger comes to show, and no other, is on a line, unless
\* the ledger was told of it after the statement.
EverySecond ==
  \A u \in Uids \ late, s \in 0..(billedTo - 1) : LinesAt(u, s) # {} <=> Held(u, s)

\* invoice.py:38 "a rate change applies from the moment it takes effect": each
\* second is priced at the rate of that second, and unpriced only without one.
RateOfTheSecond ==
  \A l \in lines : l.kind # "covered" =>
    \A s \in l.from..(l.to - 1) : l.rate = InForce(s) /\ (l.kind = "unpriced" <=> InForce(s) = Never)

\* invoice.py:33 "never charged twice for the same hardware": a second on the
\* reserved node is paid by the node-month or by the hour, not both.
NeverTwice ==
  \A l \in lines : \A s \in l.from..(l.to - 1) :
    l.uid \in Reserved => (l.kind = "covered" <=> \E n \in LinesAt("node", s) : TRUE)

\* invoice.py:33 "pays the node-month for their reserved node(s)", 35 "each day
\* at 1/days-in-ITS-calendar-month", 16 "TOTAL sums the displayed line amounts":
\* the rows of a month that was reserved whole, all priced and none reaching out
\* of it, add up to no less than the cheapest and no more than the dearest price
\* they were written at, give or take half a cent a row, however many days the
\* month has and however many statements, rates and parts of days the rows are of.
WholeMonth ==
  \A m \in DOMAIN DaysIn :
    LET first == Day * FirstDay(m)  after == first + Day * DaysIn[m]
        rows == {l \in lines : l.uid = "node" /\ l.from < after /\ first < l.to}
        paid == Cent * SumFunction([l \in rows |-> l.cents])
        slack == Cent * Cardinality(rows) IN
    /\ reserved.from <= first /\ after <= reserved.to /\ after <= billedTo
    /\ \A l \in rows : l.kind = "node" /\ first <= l.from /\ l.to <= after
    => /\ \E l \in rows : 2 * Price("node", l.rate) <= 2 * paid + slack
       /\ \E l \in rows : 2 * paid <= 2 * Price("node", l.rate) + slack
=============================================================================
