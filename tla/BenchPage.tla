----------------------------- MODULE BenchPage ------------------------------
(***************************************************************************)
(* site/bench/bench.js: the page that renders the history of benchmarks    *)
(* which CI rewrites on every push.  init() computes everything from the   *)
(* history once; what changes afterwards is the tooltip.                   *)
(*                                                                         *)
(* A metric's name is its grouping prefix, the rest, and whether it ends   *)
(* in _ev_s; a measurement is a point: name, unit, value, date, commit.    *)
(***************************************************************************)
EXTENDS Integers, Sequences, SequencesExt, FiniteSetsExt, FiniteSets, Arrays

CONSTANTS
  Sections,      \* SECTIONS: the known prefixes, in the order of the page
  Fallback,      \* FALLBACK: the section of every other metric
  Histories      \* histories of entries [date, commit, benches]

ASSUME SectionAssumption ==
  Sections \in Seq(ToSet(Sections)) /\ IsInjective(Sections) /\ Fallback \notin ToSet(Sections)

(* A measurement is a time, a size or a rate: never negative. *)
Measured(h) ==
  /\ h \in Seq(ToSet(h))
  /\ \A e \in ToSet(h) :
       /\ e.date \in Int /\ e.benches \in Seq(ToSet(e.benches))
       /\ \A b \in ToSet(e.benches) : b.value \in Nat

ASSUME HistoryAssumption == \A h \in Histories : Measured(h)

VARIABLES
  entries,       \* BENCHMARK_DATA.entries.Benchmark
  drawn,         \* init() has run on an open page
  pointer,       \* where the pointer is: a card's name and x, or NoWhere
  dot,           \* the dot that is lit: a card's name and the point's number
  tip            \* the tooltip: what it shows, or NoWhere while hidden

benchVars == <<entries, drawn, pointer, dot, tip>>

NoWhere == <<>>

-----------------------------------------------------------------------------
HigherIsBetter(p) == p.unit = "ev/s" \/ p.name.evs

SectionOf(name) == IF name.prefix \in ToSet(Sections) THEN name.prefix ELSE Fallback

(* The entries by date; entries of one date keep their order. *)
Before(i, j) == entries[i].date < entries[j].date \/ (entries[i].date = entries[j].date /\ i < j)
Sorted == LET order == Ranked(Len(entries), {p \in (DOMAIN entries) \X (DOMAIN entries) : Before(p[1], p[2])})
          IN  [n \in DOMAIN entries |-> entries[order[n]]]

(* name -> chronological list of measurements *)
PointsOf(e) == [n \in DOMAIN e.benches |->
                  [name |-> e.benches[n].name, unit |-> e.benches[n].unit, value |-> e.benches[n].value,
                   date |-> e.date, commit |-> e.commit]]
AllPoints == FlattenSeq([n \in DOMAIN entries |-> PointsOf(Sorted[n])])
Names == {p.name : p \in ToSet(AllPoints)}
Series(name) == Kept(AllPoints, {i \in DOMAIN AllPoints : AllPoints[i].name = name})

(* section -> its metrics; sections without one are left out. *)
Bucket(section) == {n \in Names : SectionOf(n) = section}
Titles == Append(Sections, Fallback)
Order == Kept(Titles, {n \in DOMAIN Titles : Bucket(Titles[n]) # {}})

-----------------------------------------------------------------------------
(* card: the last value against the one before, in percent of it; under    *)
(* 0.05 percent it is flat.                                                *)
Size(v) == IF v < 0 THEN -v ELSE v
Delta(points) ==
  LET n == Len(points)
      change == points[n].value - points[n - 1].value
      prev == Size(points[n - 1].value)
  IN  IF n < 2 \/ points[n - 1].value = 0 THEN "none"
      ELSE IF 2000 * Size(change) < prev THEN "flat"
      ELSE IF (change > 0) = HigherIsBetter(points[n]) THEN "good" ELSE "bad"

Card(name) == [name |-> name, runs |-> Len(Series(name)), delta |-> Delta(Series(name))]

(* The panels of the page, each with its cards. *)
Panels == [n \in DOMAIN Order |-> [title |-> Order[n], cards |-> {Card(m) : m \in Bucket(Order[n])}]]

(* The number CI acts on: a metric more than twice as bad as before. *)
WorseUpwards(last, prev) == last.value > 2 * prev        \* a wrong variant
Worse(last, prev) == IF HigherIsBetter(last) THEN prev > 2 * last.value ELSE last.value > 2 * prev
Breached(name) ==
  LET points == Series(name)
      last == points[Len(points)]
      prev == points[Len(points) - 1].value
  IN  Len(points) >= 2 /\ prev # 0 /\ last.value # 0 /\ Worse(last, prev)

Summary == [metrics |-> Cardinality(Names), subsystems |-> Len(Order),
            commits |-> Len(entries), breaches |-> Cardinality({n \in Names : Breached(n)})]

-----------------------------------------------------------------------------
(* sparkline: the points are spread over the width W; the band of a point, *)
(* as wide as their distance, is its hit target.  In units of W / (4(n-1)),*)
(* so that the dot of point k is at 4(k-1).                                *)
SparkWidth(n) == IF n = 1 THEN 4 ELSE 4 * (n - 1)
DotAt(k, n) == IF n = 1 THEN 2 ELSE 4 * (k - 1)
BandFromDot(k, n) == IF n = 1 THEN 0 ELSE 4 * (k - 1)    \* a wrong variant
BandStart(k, n) == IF n = 1 THEN 0 ELSE 4 * (k - 1) - 2
BandWidth == 4

(* The later band lies over the earlier one's edge. *)
BandUnder(x, n) == Max({k \in 1 .. n : BandStart(k, n) <= x /\ x <= BandStart(k, n) + BandWidth})

(* mouseenter, after the mouseleave of the band the pointer was over: the  *)
(* dot is lit and the tooltip shows its point.                             *)
Hover(name, x) ==
  LET k == BandUnder(x, Len(Series(name)))
  IN  /\ drawn /\ pointer # <<name, x>>
      /\ pointer' = <<name, x>>
      /\ IF dot = <<name, k>> THEN UNCHANGED <<dot, tip>>      \* still in its band
                              ELSE dot' = <<name, k>> /\ tip' = <<name, k>>
      /\ UNCHANGED <<entries, drawn>>

(* mouseleave, onto nothing *)
MoveOut ==
  /\ pointer # NoWhere
  /\ pointer' = NoWhere /\ dot' = NoWhere /\ tip' = NoWhere
  /\ UNCHANGED <<entries, drawn>>

(* hideTip on scroll: the dot stays lit. *)
ScrollBench ==
  /\ tip # NoWhere
  /\ tip' = NoWhere
  /\ UNCHANGED <<entries, drawn, pointer, dot>>

(* CI may have rewritten the history since the page was last open; without *)
(* any entry renderEmpty says so and nothing is drawn.                     *)
OpenBench ==
  /\ ~drawn /\ entries' \in Histories /\ drawn' = (entries' # <<>>)
  /\ UNCHANGED <<pointer, dot, tip>>

CloseBench ==
  /\ entries' = <<>> /\ drawn' = FALSE
  /\ pointer' = NoWhere /\ dot' = NoWhere /\ tip' = NoWhere

BenchInit == entries = <<>> /\ drawn = FALSE /\ pointer = NoWhere /\ dot = NoWhere /\ tip = NoWhere

BenchStep ==
  \/ \E name \in Names : \E x \in 0 .. SparkWidth(Len(Series(name))) : Hover(name, x)
  \/ MoveOut \/ ScrollBench

-----------------------------------------------------------------------------
(* The page accounts for every measurement: each is in the series of one   *)
(* card of one panel, the series are in the order of time, and the summary *)
(* counts what the panels show; whatever breaches CI's threshold shows on  *)
(* its card as a change for the worse.                                     *)
Chronological(points) == \A i, j \in DOMAIN points : i < j => points[i].date <= points[j].date

CardsOf(panel) == Panels[panel].cards
AllCards == UNION {CardsOf(n) : n \in DOMAIN Panels}

SummaryAgreesWithCards ==
  drawn =>
    /\ SumFunction([n \in DOMAIN Panels |-> SumFunction([c \in CardsOf(n) |-> c.runs])])
         = SumFunction([i \in DOMAIN entries |-> Len(entries[i].benches)])
    /\ SumFunction([n \in DOMAIN Panels |-> Cardinality(CardsOf(n))]) = Summary.metrics
    /\ \A n \in Names : Chronological(Series(n))
    /\ Summary.breaches = Cardinality({c \in AllCards : c.delta = "bad" /\ Breached(c.name)})

(* The tooltip belongs to the measurement nearest to the pointer, and it   *)
(* never shows one whose dot is not lit.                                   *)
TipIsTheNearest ==
  tip # NoWhere =>
    LET n == Len(Series(tip[1]))
        Away(k) == Size(pointer[2] - DotAt(k, n))
    IN  /\ dot = tip /\ pointer[1] = tip[1]
        /\ \A k \in 1 .. n : Away(tip[2]) <= Away(k)

(* What the page shows of the record: its cards, its summary, its tooltip. *)
BenchTellsTheRecord == SummaryAgreesWithCards /\ TipIsTheNearest
=============================================================================
