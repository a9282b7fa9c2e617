------------------------------- MODULE MCSite -------------------------------
(* The site on small instances: eight ways a dashboard may find its daemon *)
(* and its browser, and the published site with all of its pages.          *)
EXTENDS Site

CONSTANTS full, reader, wrong

Limits(loads, submits, signOuts, outages, breaks, commands) ==
  [loads |-> loads, submits |-> submits, signOuts |-> signOuts, outages |-> outages,
   breaks |-> breaks, commands |-> commands]

(* Two curves on one grid of times, with the null of a NAV not finite.     *)
Curves == << << <<4, 2>>, <<12, 5>>, <<17, Null>>, <<28, 4>> >>,
             << <<4, 3>>, <<12, 3>>, <<17, 1>>, <<28, -2>> >> >>

(* Two instances.  Doubles near these times are 4 apart: 13 and 14 are one *)
(* number, 14 and 15 too, the even one of 12 and 16.                       *)
Position(s, u) == [symbol |-> s, unrealized |-> u]
Momentum == [id |-> "momentum", realized |-> 2, positions |-> <<Position("A", -3)>>, recent |-> <<13, 9, 2>>]
Reversal == [id |-> "reversal", realized |-> -5, positions |-> <<Position("A", 1), Position("B", 1)>>,
             recent |-> <<14, 15, 8>>]
Subsystems == <<[name |-> "bus", state |-> "ok"], [name |-> "feed", state |-> "failed"], [name |-> "log", state |-> "degraded"]>>
Raised == <<[code |-> "GAP", severity |-> "critical"]>>

Base ==
  [daemon |-> "keyed", slow |-> TRUE, healthy |-> TRUE, sse |-> TRUE,
   insts |-> <<Momentum>>, components |-> <<>>, alerts |-> <<>>,
   source |-> "live", p99 |-> Sla + 1, depth |-> <<0, 1, 3, 4>>, curves |-> Curves,
   keys |-> {full}, limits |-> Limits(1, 1, 0, 0, 0, 0), pages |-> {"dashboard"}]

PlainBrowser ==      \* no EventSource: polling, with keys that are not accepted or may only read
  [Base EXCEPT !.slow = FALSE, !.sse = FALSE, !.keys = {reader, wrong}, !.limits = Limits(1, 2, 0, 0, 0, 0)]
NoKeyStore ==        \* two instances to compare, an outage, a broken stream
  [Base EXCEPT !.daemon = "open", !.insts = <<Momentum, Reversal>>, !.keys = {}, !.limits = Limits(1, 0, 0, 1, 2, 1)]
Published ==         \* no daemon behind the pages
  [Base EXCEPT !.daemon = "none", !.keys = {}, !.limits = Limits(3, 0, 0, 0, 0, 0),
               !.pages = {"dashboard", "bench", "guide"}]
SignsOut ==          \* leaves, comes back, signs out and submits spaces
  [Base EXCEPT !.keys = {full, NoKey}, !.limits = Limits(2, 1, 1, 0, 0, 0)]
Unhealthy ==         \* health answers 503
  [Base EXCEPT !.slow = FALSE, !.healthy = FALSE, !.limits = Limits(1, 1, 0, 0, 0, 1)]
Buffered ==          \* something on the way breaks the stream
  [Base EXCEPT !.limits = Limits(1, 1, 0, 0, 2, 0)]
Restarted ==         \* the daemon goes away and forgets its tickets
  [Base EXCEPT !.limits = Limits(1, 1, 0, 1, 0, 0)]
Replayed ==          \* a replayed log, no EventSource
  [NoKeyStore EXCEPT !.sse = FALSE, !.source = "replay", !.insts = <<Reversal, Momentum>>,
               !.components = Subsystems, !.alerts = Raised, !.limits = Limits(2, 0, 0, 1, 0, 1)]

Explored == {PlainBrowser, NoKeyStore, Published, SignsOut, Unhealthy, Buffered, Restarted, Replayed}
OnlyUnhealthy == {Unhealthy}

-----------------------------------------------------------------------------
(* Three metrics of two subsystems over up to three commits, one of them   *)
(* committed out of order and one measuring a metric twice.                *)
Events == [prefix |-> "event_bus", rest |-> "throughput", evs |-> TRUE]
Latency == [prefix |-> "event_bus", rest |-> "latency", evs |-> FALSE]
Core == [prefix |-> "core", rest |-> "queue", evs |-> FALSE]

Bench(n, u, v) == [name |-> n, unit |-> u, value |-> v]
Entry(d, c, bs) == [date |-> d, commit |-> c, benches |-> bs]

First == Entry(1, "a", <<Bench(Events, "ev/s", 9), Bench(Core, "ns", 2)>>)
Second == Entry(2, "b", <<Bench(Core, "ns", 5), Bench(Events, "ev/s", 4), Bench(Latency, "ns", 0)>>)
Third == Entry(2, "c", <<Bench(Latency, "ns", 3), Bench(Latency, "ns", 3), Bench(Events, "ev/s", 9)>>)

Recorded == {<<>>, <<First>>, <<First, Second>>, <<Third, First, Second>>, <<Second, Third, First>>}
KnownSections == <<"event_bus", "risk">>

(* A guide of three sections, the last one short. *)
GuideTops == <<1, 4, 9>>
=============================================================================
