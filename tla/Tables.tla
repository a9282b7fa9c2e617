------------------------------- MODULE Tables -------------------------------
(***************************************************************************)
(* dashboard.js: what a frame becomes in the cards of the strategies, the  *)
(* tables of positions, fills and components, the list of alerts and the   *)
(* figures above them.  A row is a record of what tells rows apart; the    *)
(* texts and numbers next to them are left out.                            *)
(*                                                                         *)
(* An instance is a record of the runtime's snapshot; its recent fills are *)
(* the times ts_ns, in the order the snapshot has them, newest first.      *)
(***************************************************************************)
EXTENDS Integers, Sequences, SequencesExt, Arrays, Doubles

CONSTANT Rows    \* rows the table of fills has room for (25)

ASSUME RowsAssumption == Rows \in Nat \ {0}

-----------------------------------------------------------------------------
Sign(v) == IF v >= 0 THEN "pos" ELSE "neg"

(* renderPositions: every position of every instance. *)
PositionRows(insts) ==
  FlattenSeq([i \in DOMAIN insts |->
    [p \in DOMAIN insts[i].positions |->
      [strategy |-> insts[i].id, symbol |-> insts[i].positions[p].symbol,
       tone |-> Sign(insts[i].positions[p].unrealized)]]])

(* renderFills: the fills of all instances, newest first (sort keeps the   *)
(* order of equals), then as many as there is room for.                    *)
AllFills(insts) ==
  FlattenSeq([i \in DOMAIN insts |->
    [f \in DOMAIN insts[i].recent |->
      [strategy |-> insts[i].id, number |-> f, ts |-> insts[i].recent[f]]]])

NewestFirst(rows) ==
  LET Newer(i, j) == \/ Number(rows[i].ts) > Number(rows[j].ts)
                     \/ Number(rows[i].ts) = Number(rows[j].ts) /\ i < j
      order == Ranked(Len(rows), {p \in (DOMAIN rows) \X (DOMAIN rows) : Newer(p[1], p[2])})
  IN  [n \in DOMAIN rows |-> rows[order[n]]]

Shortened(rows) == SubSeq(rows, 1, IF Len(rows) < Rows THEN Len(rows) ELSE Rows)

(* Wrong variant: shortened before it is sorted. *)
FillRowsCutFirst(insts) == NewestFirst(Shortened(AllFills(insts)))
FillRows(insts) == Shortened(NewestFirst(AllFills(insts)))

(* renderRuntime: the sums over the instances and how they are coloured.   *)
Total(amounts) == SumFunction(amounts)
Unrealized(i) == Total([p \in DOMAIN i.positions |-> i.positions[p].unrealized])
Figures(insts) ==
  [instances |-> Len(insts),
   realized |-> Sign(Total([i \in DOMAIN insts |-> insts[i].realized])),
   unrealized |-> Sign(Total([i \in DOMAIN insts |-> Unrealized(insts[i])]))]

(* renderComponents and renderAlerts: one row each. *)
StateTone(state) == CASE state = "ok" -> "pos" [] state = "failed" -> "neg" [] OTHER -> ""
ComponentRows(components) ==
  [n \in DOMAIN components |->
    [name |-> components[n].name, tone |-> StateTone(components[n].state)]]
AlertRows(alerts) == [n \in DOMAIN alerts |-> [code |-> alerts[n].code, class |-> alerts[n].severity]]

-----------------------------------------------------------------------------
(* A report: instances of different names, with amounts and times that are *)
(* whole numbers.                                                          *)
Reported(insts) ==
  /\ insts \in Seq(ToSet(insts))
  /\ \A i, j \in DOMAIN insts : insts[i].id = insts[j].id => i = j
  /\ \A i \in DOMAIN insts :
       /\ insts[i].recent \in Seq(Int)
       /\ [p \in DOMAIN insts[i].positions |-> insts[i].positions[p].unrealized] \in Seq(Int)

(* The table of fills shows the newest of those the instances report: it   *)
(* is full or shows all, and no fill that is left out, or further down, is *)
(* newer by more than doubles can tell.                                    *)
ShowsTheNewest(rows, insts) ==
  LET all == AllFills(insts)
      hidden == ToSet(all) \ ToSet(rows)
  IN  /\ Len(rows) = (IF Len(all) < Rows THEN Len(all) ELSE Rows)
      /\ ToSet(rows) \subseteq ToSet(all) /\ IsInjective(rows)
      /\ \A j \in DOMAIN rows :
           /\ \A h \in hidden : h.ts - rows[j].ts <= Spacing
           /\ \A k \in 1 .. j - 1 : rows[j].ts - rows[k].ts <= Spacing
=============================================================================
