------------------------------- MODULE Charts -------------------------------
(***************************************************************************)
(* site/assets/chart.js: the ring that bounds a streaming series, and the  *)
(* geometry of the charts drawn from it.  A chart is the sequence of the   *)
(* points of its path; coordinates are integers in hundredths of a viewBox *)
(* unit, which is what toFixed(2) leaves.                                  *)
(***************************************************************************)
EXTENDS Integers, Sequences, SequencesExt, FiniteSetsExt, Arrays, Doubles

CONSTANTS
  NaN,    \* a number that is not finite
  Null    \* what JSON has for one

(* Arithmetic and the global isFinite read a null as 0. *)
ToNumber(v) == IF v = Null THEN 0 ELSE v
IsFinite(v) == ToNumber(v) # NaN

W == 10000
H == 10000
PadTop == 600
PadBottom == 1000

(* Ring.push: the oldest points make room. *)
Push(ring, v, capacity) ==
  LET all == Append(ring, v)
  IN  SubSeq(all, Max({1, Len(all) - capacity + 1}), Len(all))

(* part / whole of a length, to the nearest hundredth. *)
Share(part, whole, length) == (2 * part * length + whole) \div (2 * whole)

(* The domain of an axis: a single value is widened by one on both sides,  *)
(* then 6% are added below and above; in fiftieths, to stay in integers.   *)
Widened(values) ==
  IF Min(values) = Max(values) THEN <<Min(values) - 1, Max(values) + 1>>
                               ELSE <<Min(values), Max(values)>>
Domain(values) ==
  LET w == Widened(values)
      pad == 3 * (w[2] - w[1])
  IN  [lo |-> 50 * w[1] - pad, hi |-> 50 * w[2] + pad]

Height(v, domain) ==
  H - PadBottom - Share(50 * v - domain.lo, domain.hi - domain.lo, H - PadTop - PadBottom)

(* line(): one series, placed by index.  `yMin` fixes the lower end, `band`*)
(* is the reference line; NaN stands for an option that is not given.      *)
Across(i, n) == IF n = 1 THEN W \div 2 ELSE Share(i - 1, n - 1, W)

Line(values, yMin, band) ==
  LET ys == {v \in ToSet(values) : IsFinite(v)}
      floor == IF IsFinite(yMin) THEN {yMin, Max(ys)} ELSE ys
      d == Domain(floor \union ({band} \ {NaN}))
      Place(i, v) == <<Across(i, Len(values)), IF IsFinite(v) THEN Height(v, d) ELSE H - PadBottom>>
  IN  IF values = <<>> THEN [path |-> <<>>, band |-> {}]
      ELSE [path |-> [i \in DOMAIN values |-> Place(i, values[i])],
            band |-> {Height(b, d) : b \in {band} \ {NaN}}]

(* lines(): several series of points <<x, y>> on shared axes, x a double.  *)
(* Points that are not finite are left out; without any point nothing is   *)
(* drawn.  A single x is widened by one as well, which between doubles two *)
(* or more apart changes nothing: the length is 0 and x the result of 0/0. *)
Drawable(points) ==
  LET kept == Kept(points, {n \in DOMAIN points : IsFinite(points[n][1]) /\ IsFinite(points[n][2])})
  IN  [i \in DOMAIN kept |-> <<ToNumber(kept[i][1]), ToNumber(kept[i][2])>>]

Span(times) ==
  IF Min(times) = Max(times) THEN <<Number(Min(times) - 1), Number(Max(times) + 1)>>
                             ELSE <<Min(times), Max(times)>>

XByIndex(p, i, n, span) == Across(i, n)      \* a wrong variant of XOf
XOf(p, i, n, span) ==
  IF span[1] = span[2] THEN NaN ELSE Share(p[1] - span[1], span[2] - span[1], W)

Lines(series) ==
  LET all == UNION {ToSet(Drawable(series[s])) : s \in DOMAIN series}
      span == Span({p[1] : p \in all})
      d == Domain({p[2] : p \in all})
      Path(points) ==
        [i \in DOMAIN points |-> <<XOf(points[i], i, Len(points), span), Height(points[i][2], d)>>]
  IN  [s \in DOMAIN series |-> IF all = {} THEN <<>> ELSE Path(Drawable(series[s]))]

(* bars(): the filled part of a bar's track, in tenths of a percent. *)
Filled(value, max) == IF max > 0 THEN Max({0, Min({1000, Share(value, max, 1000)})}) ELSE 0

-----------------------------------------------------------------------------
(* What a reader of a chart relies on: nothing is drawn outside the plot,  *)
InsidePlot(path) ==
  \A i \in DOMAIN path : path[i][1] \in 0 .. W /\ path[i][2] \in PadTop .. H - PadBottom

(* and, whatever series two points belong to, what stands further to the   *)
(* right is later, what stands higher is higher, and a time that is no     *)
(* shorter is drawn no narrower, as far as hundredths of a unit tell.      *)
Marks(series, drawn) ==
  UNION {{[point |-> Drawable(series[s])[i], at |-> drawn[s][i]] : i \in DOMAIN drawn[s]} : s \in DOMAIN drawn}

SharedAxes(marks) ==
  \A m, k \in marks :
    /\ m.at[1] < k.at[1] => m.point[1] < k.point[1]
    /\ m.at[2] > k.at[2] => m.point[2] < k.point[2]

EvenTime(marks) ==
  LET places == {<<m.point[1], m.at[1]>> : m \in marks}
  IN  \A p, q, r, t \in places :
        q[1] - p[1] >= t[1] - r[1] => q[2] - p[2] >= t[2] - r[2] - 1

(* Two points of different times. *)
Spread(series) ==
  \E s, t \in DOMAIN series :
    \E i \in DOMAIN Drawable(series[s]), j \in DOMAIN Drawable(series[t]) :
      Drawable(series[s])[i][1] # Drawable(series[t])[j][1]
=============================================================================
