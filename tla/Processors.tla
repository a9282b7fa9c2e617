------------------------------ MODULE Processors ------------------------------
(***************************************************************************)
(* A market-data processor: the handler the bus dispatcher calls, the      *)
(* single-producer ring, and the Domain that drains it and owns all of the *)
(* processor's tables.  The three of them (lib/time_series, lib/analytics, *)
(* lib/pairs) have this skeleton in common and differ in what they do with *)
(* a tick.  The ring's own steps are those of SPSCQueue.                   *)
(***************************************************************************)
EXTENDS SPSCQueue, Integers, FiniteSets, SequencesExt

CONSTANTS Intervals,   \* intervals_ns, in order
          RingSize, MinPublish, MaxStale,
          Never,       \* Int64.min_int, an absent price
          Setups       \* which processor, which ticks it is sent, how many,
                       \* how many entries its tables may have

ASSUME ProcessorAssumption ==
  /\ {RingSize, MinPublish, MaxStale} \subseteq Nat \ {0}
  /\ Never \notin Int
  /\ Intervals \in Seq(Nat \ {0})
  /\ \A t \in Items : t.ts \in Int /\ t.price \in Int
  /\ \A s \in Setups : /\ s.kind \in {"bars", "analytics", "pairs"}
                       /\ s.ticks \subseteq Items /\ s.max \in Nat /\ s.keys \in Nat \ {0}

VARIABLES
  setup,       \* constant: which processor this is
  subscribed,  \* the handler is in the bus's table
  stopper,     \* how far the one caller of stop that wins joined has come
  stopFlag,
  handler,     \* what the dispatcher is doing in the handler
  phase,       \* what the drain Domain does next
  draining,    \* it has seen stopFlag
  stats,       \* the counters
  table        \* the drain Domain's tables

procVars == <<setup, subscribed, stopper, stopFlag, handler, phase, draining,
              stats, table, vars>>

-----------------------------------------------------------------------------
(* Bar_builder.  A price stands for the size too: a bar counts its ticks.  *)

(* Wrong variant: division truncates toward zero, before 1970 too. *)
OpenTruncated(ts, iv) == (IF ts >= 0 THEN ts \div iv ELSE -((-ts) \div iv)) * iv

(* bar_open_for: Int64.div truncates, so times before 1970 are put right. *)
BarOpenFor(ts, iv) ==
  LET q == IF ts >= 0 THEN ts \div iv ELSE -((-ts) \div iv)
  IN  IF ts >= 0 \/ ts = q * iv THEN q * iv ELSE (q - 1) * iv

Bar(start, p) == [open_ts |-> start, open |-> p, high |-> p, low |-> p, close |-> p, n |-> 1]

Widened(b, p) == [b EXCEPT !.high = IF p > @ THEN p ELSE @, !.low = IF p < @ THEN p ELSE @,
                           !.close = p, !.n = @ + 1]

(* push_bar *)
Pushed(ring, bar) ==
  IF Len(ring) < RingSize THEN Append(ring, bar) ELSE Append(Tail(ring), bar)

(* ticks is history: what the cell was given.                              *)
NewCell(t) == [bar |-> Bar(Never, 0), ring |-> <<>>, late |-> 0, last |-> t.ts, ticks |-> <<>>]

(* Bar_builder.on_tick and what domain_main does with its answer. *)
BarTick(c, t, iv) ==
  LET fresh == Bar(BarOpenFor(t.ts, iv), t.price)
      cell == [c EXCEPT !.last = t.ts, !.ticks = Append(@, t)]
  IN  IF c.bar.open_ts = Never THEN [cell EXCEPT !.bar = fresh]
      ELSE IF t.ts >= c.bar.open_ts + iv
        THEN [cell EXCEPT !.bar = fresh, !.ring = Pushed(@, c.bar)]
      ELSE IF t.ts < c.bar.open_ts THEN [cell EXCEPT !.late = @ + 1]
      ELSE [cell EXCEPT !.bar = Widened(@, t.price)]

-----------------------------------------------------------------------------
(* Tables with a bound: the entry whose last tick is oldest makes room;    *)
(* among equals, which one does depends on the hash table.  The published  *)
(* index is rebuilt whenever an entry was added, so its keys are the       *)
(* table's.                                                                *)

With(f, k, v) == [j \in DOMAIN f \union {k} |-> IF j = k THEN v ELSE f[j]]
Without(f, k) == [j \in DOMAIN f \ {k} |-> f[j]]

Evictable(f) == {k \in DOMAIN f : \A j \in DOMAIN f : f[k].last <= f[j].last}

Room(f) == IF Cardinality(DOMAIN f) >= setup.keys THEN {Without(f, k) : k \in Evictable(f)}
           ELSE {f}

(* process_one of the time series: every interval in turn. *)
BarsAfter(tab, t) ==
  LET update(f, iv) ==
        IF <<t.sym, iv>> \in DOMAIN f
        THEN {With(f, <<t.sym, iv>>, BarTick(f[<<t.sym, iv>>], t, iv))}
        ELSE {With(g, <<t.sym, iv>>, BarTick(NewCell(t), t, iv)) : g \in Room(f)}
      after[n \in 0 .. Len(Intervals)] ==
        IF n = 0 THEN {tab} ELSE UNION {update(f, Intervals[n]) : f \in after[n - 1]}
  IN  after[Len(Intervals)]

NewSymbol == [last |-> 0, late |-> 0, rejected |-> 0, n |-> 0, pub |-> 0]

(* on_tick of Per_symbol and Per_pair: out of order is counted and dropped.*)
InOrder(c, t) == t.ts >= c.last

(* publish_snapshot at most every min_publish_interval_ns. *)
Published(c, t) ==
  IF c.pub = 0 \/ t.ts - c.pub >= MinPublish THEN [c EXCEPT !.pub = t.ts] ELSE c

(* An outlier moves the clock, but nothing else. *)
SymbolTick(c, t) ==
  IF ~InOrder(c, t) THEN {[c EXCEPT !.late = @ + 1]}
  ELSE {[c EXCEPT !.last = t.ts, !.rejected = @ + 1],
        Published([c EXCEPT !.last = t.ts, !.n = @ + 1], t)}

SymbolsAfter(tab, t) ==
  IF t.sym \in DOMAIN tab
  THEN {With(tab, t.sym, c) : c \in SymbolTick(tab[t.sym], t)}
  ELSE UNION {{With(f, t.sym, c) : c \in SymbolTick(NewSymbol, t)} : f \in Room(tab)}

(* The pair of two symbols: prices[s] is when the cached price of s is of. *)
Abs(d) == IF d < 0 THEN -d ELSE d

PairTick(c, t) == IF InOrder(c, t)
                  THEN Published([c EXCEPT !.last = t.ts, !.n = @ + 1], t)
                  ELSE [c EXCEPT !.late = @ + 1]

(* process_tick: the price is cached, whether or not it is the newest.     *)
PairsAfter(tab, t) ==
  LET prices == With(tab.prices, t.sym, t.ts)
      others == {s \in DOMAIN prices : s # t.sym /\ Abs(t.ts - prices[s]) <= MaxStale}
  IN  {[prices |-> prices,
        pair   |-> IF others = {} THEN tab.pair ELSE PairTick(tab.pair, t)]}

NoEntries == [k \in {} |-> 0]
EmptyTable(kind) ==
  IF kind = "pairs" THEN [prices |-> NoEntries, pair |-> NewSymbol] ELSE NoEntries

After(kind, tab, t) == CASE kind = "bars"      -> BarsAfter(tab, t)
                         [] kind = "analytics" -> SymbolsAfter(tab, t)
                         [] kind = "pairs"     -> PairsAfter(tab, t)

-----------------------------------------------------------------------------
(* start *)

NoStats == [observed |-> 0, skipped |-> 0, rejected |-> 0, dropped |-> 0, processed |-> 0]

ProcInit ==
  /\ Init
  /\ setup \in Setups
  /\ subscribed = TRUE /\ stopper = "none" /\ stopFlag = FALSE
  /\ handler = "idle"
  /\ phase = "flag" /\ draining = FALSE
  /\ stats = NoStats
  /\ table = EmptyTable(setup.kind)

ringVars == vars
stopVars == <<subscribed, stopper, stopFlag>>
drainVars == <<phase, draining, table>>

Counted(what) == stats' = [stats EXCEPT ![what] = @ + 1]

-----------------------------------------------------------------------------
(* The dispatcher.  An event it has found a subscriber for is delivered    *)
(* even when the subscriber is gone by the time.                           *)

Dispatch == /\ handler = "idle" /\ subscribed
            /\ stats.observed < setup.max
            /\ handler' = "called"
            /\ UNCHANGED <<setup, stopVars, drainVars, stats, ringVars>>

(* Not a tick, or of a symbol no pair has; skipped is not in the code.     *)
Skip == /\ handler = "called"
        /\ handler' = "idle"
        /\ stats' = [stats EXCEPT !.observed = @ + 1, !.skipped = @ + 1]
        /\ UNCHANGED <<setup, stopVars, drainVars, ringVars>>

(* Filters.Sanity.check; the pairs do without. *)
Reject == /\ handler = "called" /\ setup.kind # "pairs"
          /\ handler' = "idle"
          /\ stats' = [stats EXCEPT !.observed = @ + 1, !.rejected = @ + 1]
          /\ UNCHANGED <<setup, stopVars, drainVars, ringVars>>

Accept(t) == /\ handler = "called"
             /\ handler' = "enqueue"
             /\ Counted("observed")
             /\ EnqueueBegin(t)
             /\ UNCHANGED <<setup, stopVars, drainVars>>

Enqueue == /\ handler = "enqueue"
           /\ ProducerStep
           /\ UNCHANGED <<setup, stopVars, handler, drainVars, stats>>

(* Wrong variant: a refused tick is not counted. *)
ReturnUncounted == /\ handler = "enqueue" /\ ppc = "idle"
                   /\ handler' = "idle"
                   /\ UNCHANGED <<setup, stopVars, drainVars, stats, ringVars>>

HandlerReturns == /\ handler = "enqueue" /\ ppc = "idle"
                  /\ handler' = "idle"
                  /\ IF sent THEN UNCHANGED stats ELSE Counted("dropped")
                  /\ UNCHANGED <<setup, stopVars, drainVars, ringVars>>

-----------------------------------------------------------------------------
(* The drain Domain: loop, and once it has seen the flag drain_until_empty.*)

LookAtStop == /\ phase = "flag"
              /\ draining' = stopFlag
              /\ phase' = "pop"
              /\ UNCHANGED <<setup, stopVars, handler, stats, table, ringVars>>

(* Wrong variant: the Domain ends as soon as it has seen the flag. *)
DequeueOrQuit == /\ phase = "pop"
                 /\ ConsumerStep
                 /\ phase' = IF cpc' # "idle" THEN "pop"
                             ELSE IF draining THEN "ended"
                             ELSE IF got' # NoItem THEN "work" ELSE "flag"
                 /\ UNCHANGED <<setup, stopVars, handler, draining, stats, table>>

Dequeue == /\ phase = "pop"
           /\ ConsumerStep
           /\ phase' = IF cpc' # "idle" THEN "pop"
                       ELSE IF got' # NoItem THEN "work"
                       ELSE IF draining THEN "ended" ELSE "flag"
           /\ UNCHANGED <<setup, stopVars, handler, draining, stats, table>>

Process == /\ phase = "work"
           /\ Counted("processed")
           /\ table' \in After(setup.kind, table, got)
           /\ phase' = IF draining THEN "pop" ELSE "flag"
           /\ UNCHANGED <<setup, stopVars, handler, draining, ringVars>>

-----------------------------------------------------------------------------
(* stop: the winner of joined unsubscribes, sets the flag and joins. *)

StopBegin == /\ stopper = "none"
             /\ stopper' = "joined"
             /\ UNCHANGED <<setup, subscribed, stopFlag, handler, drainVars, stats, ringVars>>

Unsubscribe == /\ stopper = "joined"
               /\ stopper' = "unsubscribed"
               /\ subscribed' = FALSE
               /\ UNCHANGED <<setup, stopFlag, handler, drainVars, stats, ringVars>>

SetStopFlag == /\ stopper = "unsubscribed"
               /\ stopper' = "joining"
               /\ stopFlag' = TRUE
               /\ UNCHANGED <<setup, subscribed, handler, drainVars, stats, ringVars>>

Join == /\ stopper = "joining" /\ phase = "ended"
        /\ stopper' = "stopped"
        /\ UNCHANGED <<setup, subscribed, stopFlag, handler, drainVars, stats, ringVars>>

Handler == \/ Dispatch \/ Skip \/ Reject \/ Enqueue \/ HandlerReturns
           \/ \E t \in setup.ticks : Accept(t)
Drain == LookAtStop \/ Dequeue \/ Process
Stop == StopBegin \/ Unsubscribe \/ SetStopFlag \/ Join

ProcNext == Handler \/ Drain \/ Stop

(* The drain Domain has a core to itself; stop is called by a thread that  *)
(* goes on.                                                                *)
ProcSpec == /\ ProcInit /\ [][ProcNext]_procVars
            /\ WF_procVars(Drain)
            /\ WF_procVars(Unsubscribe \/ SetStopFlag \/ Join)

-----------------------------------------------------------------------------
(* An event in the hands of the dispatcher, a tick in those of the Domain. *)
Handing == IF handler = "enqueue" /\ (ppc # "idle" \/ ~sent) THEN 1 ELSE 0
Working == IF phase = "work" THEN 1 ELSE 0

(* Every event the handler saw is one of those in the counters, in the     *)
(* ring, or in the hands of one of the two threads; also after stop, when  *)
(* a late event stays in the ring for good.                                *)
TicksAccounted ==
  stats.observed = stats.skipped + stats.rejected + stats.dropped + stats.processed
                     + Used + Handing + Working

InRing(i) == (i - head) % Capacity < Used

(* Every tick in the ring is taken, unless the Domain had ended when it    *)
(* came: stop leaves no tick behind that was there before it, and returns. *)
TicksAreTaken ==
  /\ \A i \in Slots : (InRing(i) /\ phase # "ended") ~> ~InRing(i)
  /\ stopper = "joined" ~> stopper = "stopped"

(* Bars by the calendar, from all the ticks ts of one symbol: a tick is on  *)
(* time when none of a later slot came before it, and a slot's bar is made *)
(* of the ticks that came for it on time.                                  *)
Slot(t, iv) == (t.ts \div iv) * iv
OnTime(ts, iv) == {i \in 1 .. Len(ts) : \A j \in 1 .. i - 1 : Slot(ts[j], iv) <= Slot(ts[i], iv)}
Of(ts, iv, s) == {i \in OnTime(ts, iv) : Slot(ts[i], iv) = s}

BarOf(ts, iv, s) ==
  LET ins == Of(ts, iv, s)
      prices == {ts[i].price : i \in ins}
  IN  [open_ts |-> s, open |-> ts[Min(ins)].price, close |-> ts[Max(ins)].price,
       high |-> Max(prices), low |-> Min(prices), n |-> Cardinality(ins)]

(* Each bar of a cell, the open one last, is the calendar's; they are in   *)
(* the order of time; and of the slots that had a tick on time they are    *)
(* all, or else the ring is full and the others are older.                 *)
CoversTicks(c, iv) ==
  LET bars == Append(c.ring, c.bar)
      starts == {bars[i].open_ts : i \in DOMAIN bars}
      slots == {Slot(c.ticks[i], iv) : i \in OnTime(c.ticks, iv)}
  IN  /\ starts \subseteq slots
      /\ \A i \in DOMAIN bars : bars[i] = BarOf(c.ticks, iv, bars[i].open_ts)
      /\ \A i, j \in DOMAIN bars : i < j => bars[i].open_ts < bars[j].open_ts
      /\ \A s \in slots \ starts : Len(c.ring) = RingSize /\ s < bars[1].open_ts
      /\ c.late = Len(c.ticks) - Cardinality(OnTime(c.ticks, iv))

(* The bars of a symbol are what its ticks are by the calendar: a tick is  *)
(* late when one of a later bar came before it, every other tick is in the *)
(* bar of its time, the newest bar is open and the last RingSize before it *)
(* are in the ring, in order.                                              *)
BarsCoverTicks ==
  setup.kind = "bars" => \A k \in DOMAIN table : CoversTicks(table[k], k[2])
=============================================================================
