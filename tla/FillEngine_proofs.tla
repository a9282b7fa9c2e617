-------------------------- MODULE FillEngine_proofs --------------------------
(***************************************************************************)
(* The venue the fill engine simulates, for every set of orders, markets,  *)
(* records and configurations and every latency: what one matching pass    *)
(* may do to an order, that an order fills only while it is live and moves *)
(* along the transition table, and that quantities and orders balance.     *)
(***************************************************************************)
EXTENDS FillEngine, TLAPS, FiniteSetTheorems

Fields == {"intent", "status", "remaining", "queue", "seeded", "displayed", "effective",
           "cancelAt", "triggered", "maker", "printed", "ahead"}

(* An order, and what an order never changes.                              *)
IsOrder(w) ==
  /\ DOMAIN w = Fields /\ w.intent \in Intents
  /\ {w.remaining, w.queue, w.displayed, w.effective, w.maker, w.printed, w.ahead} \subseteq Nat
  /\ w.remaining <= w.intent.qty
  /\ w.cancelAt = NoTime \/ w.cancelAt \in Nat
  /\ {w.seeded, w.triggered} \subseteq BOOLEAN

Same(w, f) == f.intent = w.intent /\ f.effective = w.effective /\ f.cancelAt = w.cancelAt

Working == {"Open", "Partially_filled"}
Retirable == {"Filled", "Cancelled", "Expired"}

(* The queue: how much of what was ahead of a resting order has not been   *)
(* printed yet.  An iceberg has no limit price, so it never rests.         *)
QueueOK(w) ==
  /\ w.maker > 0 => w.maker <= w.printed - w.ahead
  /\ IF w.intent.kind # "Iceberg" /\ w.seeded
     THEN w.queue = IF w.ahead > w.printed THEN w.ahead - w.printed ELSE 0
     ELSE w.maker = 0 /\ w.printed = 0 /\ w.ahead = 0

(* record_fill and refresh_iceberg, field by field.                        *)
LEMMA FilledFields ==
  ASSUME NEW w, IsOrder(w), NEW q \in Nat, q <= w.remaining, NEW maker \in BOOLEAN
  PROVE  LET f == Filled(w, q, maker)
         IN  /\ IsOrder(f) /\ Same(w, f)
             /\ f.remaining = w.remaining - q
             /\ f.status = IF f.remaining = 0 THEN "Filled" ELSE "Partially_filled"
             /\ f.queue = w.queue /\ f.printed = w.printed /\ f.ahead = w.ahead
             /\ f.triggered = w.triggered
             /\ f.maker = IF maker THEN w.maker + q ELSE w.maker
             /\ w.intent.kind # "Iceberg" => f.seeded = w.seeded
<1> DEFINE left == w.remaining - q
           iceberg == w.intent.kind = "Iceberg" /\ left > 0
           d == IF iceberg THEN Min2(w.intent.display, left) ELSE left
           f == Filled(w, q, maker)
<1>1. left \in Nat /\ left <= w.intent.qty /\ w.intent.qty \in Nat /\ w.intent.display \in Nat
  BY FillAssumption DEF IsOrder
<1>2. d \in Nat
  BY <1>1 DEF Min2
<1>3. w.maker \in Nat /\ w.maker + q \in Nat
  BY DEF IsOrder
<1>4. /\ DOMAIN f = Fields
      /\ f.remaining = left /\ f.displayed = d
      /\ f.seeded = IF iceberg THEN FALSE ELSE w.seeded
      /\ f.status = IF left = 0 THEN "Filled" ELSE "Partially_filled"
      /\ f.maker = IF maker THEN w.maker + q ELSE w.maker
      /\ f.intent = w.intent /\ f.queue = w.queue /\ f.effective = w.effective
      /\ f.cancelAt = w.cancelAt /\ f.triggered = w.triggered
      /\ f.printed = w.printed /\ f.ahead = w.ahead
  BY DEF IsOrder, Fields, Filled
<1> HIDE DEF f, d, left, iceberg
<1>5. IsOrder(f)
  BY <1>1, <1>2, <1>3, <1>4 DEF IsOrder
<1>6. w.intent.kind # "Iceberg" => f.seeded = w.seeded
  BY <1>4 DEF iceberg
<1> QED BY <1>4, <1>5, <1>6 DEF f, left, Same
(* A change of status alone.                                               *)
LEMMA StatusFields ==
  ASSUME NEW w, IsOrder(w), NEW s
  PROVE  LET f == [w EXCEPT !.status = s]
         IN  /\ IsOrder(f) /\ Same(w, f) /\ f.status = s
             /\ f.remaining = w.remaining /\ f.triggered = w.triggered
             /\ f.queue = w.queue /\ f.printed = w.printed /\ f.ahead = w.ahead
             /\ f.maker = w.maker /\ f.seeded = w.seeded
BY DEF IsOrder, Same, Fields

(* What the market may do to an order that is working: it stays one order, *)
(* never grows, and is decided upon in the ways of the matching pass.      *)
Moved(w, f) ==
  /\ IsOrder(f) /\ Same(w, f)
  /\ f.remaining <= w.remaining /\ f.triggered = w.triggered
  /\ \/ f.status = w.status
     \/ f.status = "Partially_filled"
     \/ f.status = "Filled" /\ f.remaining = 0
     \/ f.status = "Cancelled" /\ w.intent.tif \in {"FOK", "IOC"}

LEMMA TakeMoves ==
  ASSUME NEW w, IsOrder(w), NEW m \in Markets
  PROVE  Moved(w, Take(w, m)) /\ (QueueOK(w) => QueueOK(Take(w, m)))
<1> DEFINE can == Min2(m.depth, w.remaining)
           f == Filled(w, can, FALSE)
<1>1. can \in Nat /\ can <= w.remaining /\ w.remaining \in Nat
  BY FillAssumption DEF Min2, IsOrder
<1> HIDE DEF can
<1>2. /\ IsOrder(f) /\ Same(w, f) /\ f.remaining = w.remaining - can
      /\ f.status = IF f.remaining = 0 THEN "Filled" ELSE "Partially_filled"
      /\ f.queue = w.queue /\ f.printed = w.printed /\ f.ahead = w.ahead
      /\ f.triggered = w.triggered /\ f.maker = w.maker
      /\ w.intent.kind # "Iceberg" => f.seeded = w.seeded
  BY <1>1, FilledFields
<1> HIDE DEF f
<1>3. Moved(w, w)
  BY <1>1 DEF Moved, Same
<1>4. Moved(w, f) /\ (QueueOK(w) => QueueOK(f))
  <2>1. f.remaining <= w.remaining
    BY <1>1, <1>2
  <2> QED BY <1>2, <2>1 DEF Moved, QueueOK, Same
<1>5. ASSUME NEW x, IsOrder(x), Moved(w, x), w.intent.tif \in {"FOK", "IOC"}
      PROVE  /\ Moved(w, [x EXCEPT !.status = "Cancelled"])
             /\ QueueOK(x) => QueueOK([x EXCEPT !.status = "Cancelled"])
  <2> DEFINE g == [x EXCEPT !.status = "Cancelled"]
  <2>1. /\ IsOrder(g) /\ Same(x, g) /\ g.status = "Cancelled"
        /\ g.remaining = x.remaining /\ g.triggered = x.triggered
        /\ g.queue = x.queue /\ g.printed = x.printed /\ g.ahead = x.ahead
        /\ g.maker = x.maker /\ g.seeded = x.seeded
    BY <1>5, StatusFields
  <2> HIDE DEF g
  <2>2. Moved(w, g) /\ (QueueOK(x) => QueueOK(g))
    BY <1>5, <2>1 DEF Moved, QueueOK, Same
  <2> QED BY <2>2 DEF g
<1>6. \/ Take(w, m) = w
      \/ Take(w, m) = f
      \/ Take(w, m) = [w EXCEPT !.status = "Cancelled"] /\ w.intent.tif = "FOK"
      \/ Take(w, m) = [f EXCEPT !.status = "Cancelled"] /\ w.intent.tif = "IOC"
  BY DEF Take, f, can
<1> QED BY <1>2, <1>3, <1>4, <1>5, <1>6

(* Resting: the queue shrinks by what is printed, and only what spills     *)
(* over it fills.                                                          *)
LEMMA SeedKeepsQueue ==
  ASSUME NEW w0, IsOrder(w0), NEW m \in Markets, w0.intent.kind # "Iceberg",
         engine.makerFill = "Queue_position" => QueueOK(w0)
  PROVE  LET w == Seed(w0, m)
         IN  /\ IsOrder(w) /\ Same(w0, w) /\ w.remaining = w0.remaining /\ w.status = w0.status
             /\ w.triggered = w0.triggered /\ w.seeded = TRUE
             /\ engine.makerFill = "Queue_position" => QueueOK(w)
<1> DEFINE q == IF engine.makerFill = "Queue_position" THEN m.resting ELSE 0
           w == [w0 EXCEPT !.seeded = TRUE, !.queue = q, !.ahead = @ + q]
<1>1. q \in Nat /\ w0.ahead \in Nat /\ w0.ahead + q \in Nat
  BY FillAssumption DEF IsOrder
<1>2. CASE w0.seeded
  <2>1. Seed(w0, m) = w0 /\ w0.seeded = TRUE
    BY <1>2 DEF Seed, IsOrder
  <2> QED BY <2>1 DEF Same
<1>3. CASE ~w0.seeded
  <2>1. Seed(w0, m) = w
    BY <1>3 DEF Seed
  <2> HIDE DEF q
  <2>2. /\ DOMAIN w = Fields /\ w.seeded = TRUE /\ w.queue = q /\ w.ahead = w0.ahead + q
        /\ w.intent = w0.intent /\ w.remaining = w0.remaining /\ w.displayed = w0.displayed
        /\ w.effective = w0.effective /\ w.cancelAt = w0.cancelAt /\ w.triggered = w0.triggered
        /\ w.maker = w0.maker /\ w.printed = w0.printed /\ w.status = w0.status
    BY DEF IsOrder, Fields
  <2> HIDE DEF w
  <2>3. IsOrder(w)
    BY <1>1, <2>2 DEF IsOrder
  <2>4. ASSUME engine.makerFill = "Queue_position" PROVE QueueOK(w)
    <3>1. w0.maker = 0 /\ w0.printed = 0 /\ w0.ahead = 0
      BY <1>3, <2>4 DEF QueueOK
    <3> QED BY <1>1, <2>2, <3>1 DEF QueueOK
  <2> QED BY <2>1, <2>2, <2>3, <2>4 DEF Same
<1> QED BY <1>2, <1>3

LEMMA RestMoves ==
  ASSUME NEW w0, IsOrder(w0), NEW r \in Records, NEW m \in Markets, w0.intent.kind # "Iceberg",
         engine.makerFill = "Queue_position" => QueueOK(w0), engine \in Engines
  PROVE  /\ Moved(w0, Rest(w0, r, m))
         /\ engine.makerFill = "Queue_position" => QueueOK(Rest(w0, r, m))
<1> DEFINE w == Seed(w0, m)
           q == MakerQuantity(w, r)
           left == IF w.queue > r.size THEN w.queue - r.size ELSE 0
           after == [w EXCEPT !.queue = IF @ > r.size THEN @ - r.size ELSE 0,
                              !.printed = @ + r.size]
           f == Filled(after, q, TRUE)
<1>1. /\ IsOrder(w) /\ Same(w0, w) /\ w.remaining = w0.remaining /\ w.status = w0.status
      /\ w.triggered = w0.triggered /\ w.seeded = TRUE
      /\ engine.makerFill = "Queue_position" => QueueOK(w)
  BY SeedKeepsQueue
<1>2. \/ Rest(w0, r, m) = w
      \/ q = 0 /\ Rest(w0, r, m) = after
      \/ Rest(w0, r, m) = f
  BY DEF Rest
<1> HIDE DEF w
<1>3. /\ r.size \in Nat /\ w.queue \in Nat /\ w.printed \in Nat /\ w.ahead \in Nat /\ w.maker \in Nat
      /\ w.remaining \in Nat /\ w.displayed \in Nat
  BY <1>1, FillAssumption DEF IsOrder
<1>4. /\ q \in Nat /\ q <= w.remaining
      /\ engine.makerFill = "Queue_position" => q <= (IF r.size > w.queue THEN r.size - w.queue ELSE 0)
  <2>1. Slice(w) \in Nat /\ Slice(w) <= w.remaining
    BY <1>3 DEF Slice, Min2
  <2>2. Spill(w, r.size) = (IF r.size > w.queue THEN r.size - w.queue ELSE 0) /\ Spill(w, r.size) \in Nat
    BY <1>3 DEF Spill
  <2>3. engine.makerFill \in {"Queue_position", "Touch_cross", "Optimistic"}
    BY FillAssumption
  <2> HIDE DEF q
  <2>4. CASE engine.makerFill = "Optimistic"
    <3>1. q = Slice(w)
      BY <2>4 DEF MakerQuantity, q
    <3> QED BY <2>1, <2>4, <3>1
  <2>5. CASE engine.makerFill = "Touch_cross"
    <3>1. q = Min2(Slice(w), r.size)
      BY <2>5 DEF MakerQuantity, q
    <3> QED BY <1>3, <2>1, <2>5, <3>1 DEF Min2
  <2>6. CASE engine.makerFill = "Queue_position"
    <3>1. q = Min2(Slice(w), Spill(w, r.size))
      BY <2>6 DEF MakerQuantity, q
    <3> QED BY <1>3, <2>1, <2>2, <3>1 DEF Min2
  <2> QED BY <2>3, <2>4, <2>5, <2>6
<1> HIDE DEF q
<1>5. /\ DOMAIN after = Fields /\ after.queue = left /\ after.printed = w.printed + r.size
      /\ after.seeded = TRUE /\ after.ahead = w.ahead /\ after.displayed = w.displayed
      /\ after.intent = w.intent /\ after.remaining = w.remaining
      /\ after.effective = w.effective /\ after.cancelAt = w.cancelAt
      /\ after.triggered = w.triggered /\ after.maker = w.maker /\ after.status = w.status
  BY <1>1 DEF IsOrder, Fields
<1> HIDE DEF after
<1>6. left \in Nat /\ w.printed + r.size \in Nat
  BY <1>3
<1>7. IsOrder(after)
  BY <1>1, <1>5, <1>6 DEF IsOrder
<1>8. /\ IsOrder(f) /\ Same(after, f) /\ f.remaining = after.remaining - q
      /\ f.status = IF f.remaining = 0 THEN "Filled" ELSE "Partially_filled"
      /\ f.queue = left /\ f.printed = w.printed + r.size /\ f.ahead = w.ahead
      /\ f.triggered = w.triggered /\ f.maker = w.maker + q /\ f.seeded = TRUE
  <2> HIDE DEF left
  <2>1. after.intent.kind # "Iceberg" /\ q <= after.remaining
    BY <1>1, <1>4, <1>5 DEF Same
  <2>2. /\ IsOrder(f) /\ Same(after, f) /\ f.remaining = after.remaining - q
        /\ f.status = IF f.remaining = 0 THEN "Filled" ELSE "Partially_filled"
        /\ f.queue = after.queue /\ f.printed = after.printed /\ f.ahead = after.ahead
        /\ f.triggered = after.triggered /\ f.maker = after.maker + q
        /\ after.intent.kind # "Iceberg" => f.seeded = after.seeded
    BY <1>4, <1>7, <2>1, FilledFields
  <2> QED BY <1>5, <2>1, <2>2
<1> HIDE DEF f
<1>9. ASSUME engine.makerFill = "Queue_position" PROVE QueueOK(after) /\ QueueOK(f)
  <2>1. /\ w.maker > 0 => w.maker <= w.printed - w.ahead
        /\ w.queue = IF w.ahead > w.printed THEN w.ahead - w.printed ELSE 0
        /\ w.intent.kind # "Iceberg"
    BY <1>1, <1>9 DEF QueueOK, Same
  <2>2. left = IF w.ahead > w.printed + r.size THEN w.ahead - (w.printed + r.size) ELSE 0
    BY <1>3, <2>1
  <2>3. w.maker > 0 => w.maker <= (w.printed + r.size) - w.ahead
    BY <1>3, <2>1
  <2>4. w.maker + q > 0 => w.maker + q <= (w.printed + r.size) - w.ahead \/ q = 0
    BY <1>3, <1>4, <1>9, <2>1
  <2>5. w.maker + q > 0 => w.maker + q <= (w.printed + r.size) - w.ahead
    BY <1>3, <1>4, <2>3, <2>4
  <2> HIDE DEF left
  <2> QED BY <1>1, <1>5, <1>8, <2>1, <2>2, <2>3, <2>5 DEF QueueOK, Same
<1>10. Moved(w0, w) /\ Moved(w0, after) /\ Moved(w0, f)
  <2>1. f.remaining <= w0.remaining
    BY <1>1, <1>3, <1>4, <1>5, <1>8
  <2>2. w.remaining <= w0.remaining /\ after.remaining <= w0.remaining
    BY <1>1, <1>3, <1>5
  <2> QED BY <1>1, <1>5, <1>7, <1>8, <2>1, <2>2 DEF Moved, Same
<1> QED BY <1>1, <1>2, <1>9, <1>10
(* One pass over one order.                                                *)
Passed(w, f, t) ==
  /\ IsOrder(f) /\ Same(w, f) /\ f.remaining <= w.remaining
  /\ f.remaining < w.remaining =>
       /\ w.effective <= t
       /\ w.cancelAt = NoTime \/ t < w.cancelAt
       /\ w.intent.tif = "GTD" => t <= w.intent.until
       /\ IsStop(w) => f.triggered
  /\ \/ f.status = w.status
     \/ f.status \in {"Partially_filled", "Expired"}
     \/ f.status = "Filled" /\ f.remaining = 0
     \/ f.status = "Cancelled" /\ (CancelIsDue(w, t) \/ w.intent.tif \in {"FOK", "IOC"})

LEMMA TriggerFields ==
  ASSUME NEW w0, IsOrder(w0), NEW m \in Markets
  PROVE  LET w == Trigger(w0, m)
         IN  /\ IsOrder(w) /\ Same(w0, w) /\ w.status = w0.status /\ w.remaining = w0.remaining
             /\ QueueOK(w0) => QueueOK(w)
<1> DEFINE w == Trigger(w0, m)
<1>1. (w0.triggered \/ Fires(w0, m)) \in BOOLEAN
  OBVIOUS
<1>2. /\ DOMAIN w = Fields /\ w.seeded = w0.seeded /\ w.queue = w0.queue /\ w.ahead = w0.ahead
      /\ w.intent = w0.intent /\ w.remaining = w0.remaining /\ w.displayed = w0.displayed
      /\ w.effective = w0.effective /\ w.cancelAt = w0.cancelAt
      /\ w.triggered = (w0.triggered \/ Fires(w0, m))
      /\ w.maker = w0.maker /\ w.printed = w0.printed /\ w.status = w0.status
  BY DEF IsOrder, Fields, Trigger
<1> HIDE DEF w
<1>3. IsOrder(w)
  BY <1>1, <1>2 DEF IsOrder
<1> QED BY <1>2, <1>3 DEF w, Same, QueueOK

LEMMA MatchMoves ==
  ASSUME NEW w0, IsOrder(w0), NEW r \in Records, NEW m \in Markets, engine \in Engines,
         engine.makerFill = "Queue_position" => QueueOK(w0)
  PROVE  LET f == MatchOrder(w0, r, m)
         IN  /\ IsOrder(f) /\ Same(w0, f) /\ f.remaining <= w0.remaining
             /\ f.remaining < w0.remaining => (IsStop(w0) => f.triggered)
             /\ \/ f.status = w0.status
                \/ f.status = "Partially_filled"
                \/ f.status = "Filled" /\ f.remaining = 0
                \/ f.status = "Cancelled" /\ w0.intent.tif \in {"FOK", "IOC"}
             /\ engine.makerFill = "Queue_position" => QueueOK(f)
<1> DEFINE w == Trigger(w0, m)
           f == MatchOrder(w0, r, m)
<1>1. /\ IsOrder(w) /\ Same(w0, w) /\ w.status = w0.status /\ w.remaining = w0.remaining
      /\ QueueOK(w0) => QueueOK(w)
  BY TriggerFields
<1>2. \/ f = w
      \/ Armed(w) /\ f = Take(w, m)
      \/ Armed(w) /\ ~Marketable(w, m) /\ f = Rest(w, r, m)
  BY DEF MatchOrder
<1> HIDE DEF w, f
<1>3. Moved(w, w)
  <2>1. w.remaining \in Nat
    BY <1>1 DEF IsOrder
  <2> QED BY <1>1, <2>1 DEF Moved, Same
<1>4. Moved(w, f) /\ (f = w \/ Armed(w)) /\ (engine.makerFill = "Queue_position" => QueueOK(f))
  <2>1. CASE f = w
    BY <1>1, <1>3, <2>1
  <2>2. CASE Armed(w) /\ f = Take(w, m)
    BY <1>1, <2>2, TakeMoves
  <2>3. CASE Armed(w) /\ ~Marketable(w, m) /\ f = Rest(w, r, m)
    <3>1. w.intent.kind # "Iceberg"
      BY <2>3 DEF Marketable, HasLimit
    <3> QED BY <1>1, <2>3, <3>1, RestMoves
  <2> QED BY <1>2, <2>1, <2>2, <2>3
<1>5. f.remaining < w0.remaining => (IsStop(w0) => f.triggered)
  <2> SUFFICES ASSUME f.remaining < w0.remaining, IsStop(w0) PROVE f.triggered
    OBVIOUS
  <2>1. f # w
    <3>1. w0.remaining \in Nat
      BY DEF IsOrder
    <3> QED BY <1>1, <3>1
  <2> QED BY <1>1, <1>4, <2>1 DEF Armed, IsStop, Same, Moved
<1>6. /\ f.remaining <= w0.remaining /\ IsOrder(f)
      /\ f.intent = w0.intent /\ f.effective = w0.effective /\ f.cancelAt = w0.cancelAt
      /\ \/ f.status = w0.status
         \/ f.status = "Partially_filled"
         \/ f.status = "Filled" /\ f.remaining = 0
         \/ f.status = "Cancelled" /\ w0.intent.tif \in {"FOK", "IOC"}
  BY <1>1, <1>4 DEF Moved, Same
<1> QED BY <1>4, <1>5, <1>6 DEF f, Same

LEMMA ProcessPasses ==
  ASSUME NEW w, IsOrder(w), NEW r \in Records, NEW m \in Markets, NEW t \in Nat, engine \in Engines,
         engine.makerFill = "Queue_position" => QueueOK(w)
  PROVE  /\ Passed(w, Process(w, t, r, m), t)
         /\ engine.makerFill = "Queue_position" => QueueOK(Process(w, t, r, m))
<1> DEFINE f == Process(w, t, r, m)
<1>1. w.remaining \in Nat /\ w.effective \in Nat /\ (w.cancelAt = NoTime \/ w.cancelAt \in Nat)
      /\ w.intent.until \in Nat
  BY FillAssumption DEF IsOrder
<1>2. ASSUME NEW s, s = "Expired" \/ (s = "Cancelled" /\ CancelIsDue(w, t))
      PROVE  /\ Passed(w, [w EXCEPT !.status = s], t)
             /\ engine.makerFill = "Queue_position" => QueueOK([w EXCEPT !.status = s])
  <2> DEFINE g == [w EXCEPT !.status = s]
  <2>1. /\ IsOrder(g) /\ Same(w, g) /\ g.status = s
        /\ g.remaining = w.remaining /\ g.triggered = w.triggered
        /\ g.queue = w.queue /\ g.printed = w.printed /\ g.ahead = w.ahead
        /\ g.maker = w.maker /\ g.seeded = w.seeded
    BY StatusFields
  <2> HIDE DEF g
  <2>2. ~(g.remaining < w.remaining) /\ g.remaining <= w.remaining
    BY <1>1, <2>1
  <2>3. Passed(w, g, t)
    BY <1>2, <2>1, <2>2 DEF Passed
  <2>4. QueueOK(w) => QueueOK(g)
    BY <2>1 DEF QueueOK, Same
  <2> QED BY <2>3, <2>4 DEF g
<1>3. Passed(w, w, t)
  <2>1. ~(w.remaining < w.remaining) /\ w.remaining <= w.remaining
    BY <1>1
  <2> QED BY <2>1 DEF Passed, Same
<1>4. ASSUME Arrived(w, t), ~CancelIsDue(w, t), ~ExpiredAt(w, t) PROVE Passed(w, MatchOrder(w, r, m), t)
  <2> DEFINE g == MatchOrder(w, r, m)
  <2>1. /\ IsOrder(g) /\ Same(w, g) /\ g.remaining <= w.remaining
        /\ g.remaining < w.remaining => (IsStop(w) => g.triggered)
        /\ \/ g.status = w.status
           \/ g.status = "Partially_filled"
           \/ g.status = "Filled" /\ g.remaining = 0
           \/ g.status = "Cancelled" /\ w.intent.tif \in {"FOK", "IOC"}
    BY MatchMoves
  <2> HIDE DEF g
  <2>2. /\ w.effective <= t
        /\ w.cancelAt = NoTime \/ t < w.cancelAt
        /\ w.intent.tif = "GTD" => t <= w.intent.until
    BY <1>1, <1>4 DEF Arrived, CancelIsDue, ExpiredAt
  <2>3. Passed(w, g, t)
    BY <2>1, <2>2 DEF Passed
  <2> QED BY <2>3 DEF g
<1>5. engine.makerFill = "Queue_position" => QueueOK(MatchOrder(w, r, m))
  BY MatchMoves
<1>6. \/ f = w
      \/ f = [w EXCEPT !.status = "Cancelled"] /\ CancelIsDue(w, t)
      \/ f = [w EXCEPT !.status = "Expired"]
      \/ Arrived(w, t) /\ ~CancelIsDue(w, t) /\ ~ExpiredAt(w, t) /\ f = MatchOrder(w, r, m)
  BY DEF Process
<1> QED BY <1>2, <1>3, <1>4, <1>5, <1>6
-----------------------------------------------------------------------------
(* The two tables.                                                         *)

AllOrders == /\ DOMAIN working \cap DOMAIN closed = {}
             /\ DOMAIN working \subseteq Coids /\ DOMAIN closed \subseteq Coids
             /\ \A c \in DOMAIN working : IsOrder(working[c]) /\ working[c].status \in Working
             /\ \A c \in DOMAIN closed : IsOrder(closed[c]) /\ closed[c].status \in Retirable

AllQueues == engine.makerFill = "Queue_position" =>
               /\ \A c \in DOMAIN working : QueueOK(working[c])
               /\ \A c \in DOMAIN closed : QueueOK(closed[c])

EngineInv == engine \in Engines /\ now \in Nat /\ AllOrders /\ AllQueues

LEMMA LookUp ==
  /\ DOMAIN Everything = DOMAIN working \union DOMAIN closed
  /\ \A c \in DOMAIN working : Everything[c] = working[c]
  /\ \A c \in DOMAIN closed : c \notin DOMAIN working => Everything[c] = closed[c]
BY DEF Everything

LEMMA LookUpNext ==
  /\ DOMAIN Everything' = DOMAIN working' \union DOMAIN closed'
  /\ \A c \in DOMAIN working' : Everything'[c] = working'[c]
  /\ \A c \in DOMAIN closed' : c \notin DOMAIN working' => Everything'[c] = closed'[c]
BY DEF Everything

(* Retiring moves orders from one table to the other and changes nothing.  *)
LEMMA RetireMoves ==
  ASSUME AllOrders, NEW ws, DOMAIN ws = DOMAIN working,
         working' = Keep(ws), closed' = Close(ws)
  PROVE  /\ Retired(ws) \subseteq DOMAIN working
         /\ DOMAIN working' = DOMAIN working \ Retired(ws)
         /\ DOMAIN closed' = DOMAIN closed \union Retired(ws)
         /\ \A c \in DOMAIN working' : working'[c] = ws[c] /\ ~Done(ws[c])
         /\ \A c \in Retired(ws) : closed'[c] = ws[c] /\ Done(ws[c])
         /\ \A c \in DOMAIN closed : closed'[c] = closed[c]
         /\ DOMAIN Everything' = DOMAIN Everything
         /\ \A c \in DOMAIN working : Everything'[c] = ws[c]
         /\ \A c \in DOMAIN closed : Everything'[c] = closed[c]
<1>1. /\ Retired(ws) \subseteq DOMAIN working
      /\ DOMAIN working' = DOMAIN working \ Retired(ws)
      /\ \A c \in DOMAIN working' : working'[c] = ws[c] /\ ~Done(ws[c])
  BY DEF Keep, Restrict, Retired
<1>2. /\ DOMAIN closed' = DOMAIN closed \union Retired(ws)
      /\ \A c \in Retired(ws) : closed'[c] = ws[c] /\ Done(ws[c])
  BY DEF Close, Retired
<1>3. \A c \in DOMAIN closed : c \notin Retired(ws) /\ closed'[c] = closed[c]
  BY <1>1 DEF Close, AllOrders
<1>4. DOMAIN Everything' = DOMAIN Everything
  BY <1>1, <1>2, LookUp, LookUpNext
<1>5. \A c \in DOMAIN working : Everything'[c] = ws[c]
  BY <1>1, <1>2, LookUpNext
<1>6. \A c \in DOMAIN closed : Everything'[c] = closed[c]
  BY <1>1, <1>2, <1>3, LookUpNext DEF AllOrders
<1> QED BY <1>1, <1>2, <1>3, <1>4, <1>5, <1>6

AfterPass(t, r, m) == [c \in DOMAIN working |-> Process(working[c], t, r, m)]
AfterCancelAll == [c \in DOMAIN working |-> [working[c] EXCEPT !.status = "Cancelled"]]

LEMMA PassEach ==
  ASSUME EngineInv, NEW t \in Times, NEW r \in Records, NEW m \in Markets
  PROVE  /\ DOMAIN AfterPass(t, r, m) = DOMAIN working
         /\ \A c \in DOMAIN working :
              /\ Passed(working[c], AfterPass(t, r, m)[c], t)
              /\ engine.makerFill = "Queue_position" => QueueOK(AfterPass(t, r, m)[c])
              /\ AfterPass(t, r, m)[c].status \in Working \union Retirable
<1>1. t \in Nat
  BY FillAssumption DEF Times
<1>2. ASSUME NEW c \in DOMAIN working
      PROVE  /\ Passed(working[c], Process(working[c], t, r, m), t)
             /\ engine.makerFill = "Queue_position" => QueueOK(Process(working[c], t, r, m))
  BY <1>1, ProcessPasses DEF EngineInv, AllOrders, AllQueues
<1>3. \A c \in DOMAIN working : AfterPass(t, r, m)[c] = Process(working[c], t, r, m)
  BY DEF AfterPass
<1>4. \A c \in DOMAIN working : AfterPass(t, r, m)[c].status \in Working \union Retirable
  BY <1>2, <1>3 DEF Passed, EngineInv, AllOrders, Working, Retirable
<1> QED BY <1>2, <1>3, <1>4 DEF AfterPass

LEMMA CancelEach ==
  ASSUME EngineInv
  PROVE  /\ DOMAIN AfterCancelAll = DOMAIN working
         /\ \A c \in DOMAIN working :
              LET f == AfterCancelAll[c]
              IN  /\ IsOrder(f) /\ Same(working[c], f) /\ f.status = "Cancelled"
                  /\ f.remaining = working[c].remaining
                  /\ engine.makerFill = "Queue_position" => QueueOK(f)
<1>1. ASSUME NEW c \in DOMAIN working
      PROVE  LET f == [working[c] EXCEPT !.status = "Cancelled"]
             IN  /\ IsOrder(f) /\ Same(working[c], f) /\ f.status = "Cancelled"
                 /\ f.remaining = working[c].remaining
                 /\ engine.makerFill = "Queue_position" => QueueOK(f)
  <2> DEFINE f == [working[c] EXCEPT !.status = "Cancelled"]
  <2>1. /\ IsOrder(f) /\ Same(working[c], f) /\ f.status = "Cancelled"
        /\ f.remaining = working[c].remaining /\ f.triggered = working[c].triggered
        /\ f.queue = working[c].queue /\ f.printed = working[c].printed /\ f.ahead = working[c].ahead
        /\ f.maker = working[c].maker /\ f.seeded = working[c].seeded
    BY StatusFields DEF EngineInv, AllOrders
  <2> HIDE DEF f
  <2>2. engine.makerFill = "Queue_position" => QueueOK(f)
    BY <2>1 DEF EngineInv, AllQueues, QueueOK, Same
  <2> QED BY <2>1, <2>2 DEF f
<1> QED BY <1>1 DEF AfterCancelAll

(* Either way of retiring keeps the tables.                                *)
LEMMA RetiringKeeps ==
  ASSUME EngineInv, NEW ws, DOMAIN ws = DOMAIN working,
         \A c \in DOMAIN working : /\ IsOrder(ws[c]) /\ ws[c].status \in Working \union Retirable
                                   /\ engine.makerFill = "Queue_position" => QueueOK(ws[c]),
         working' = Keep(ws), closed' = Close(ws), engine' = engine, now' \in Nat
  PROVE  EngineInv'
<1>1. AllOrders
  BY DEF EngineInv
<1>2. /\ Retired(ws) \subseteq DOMAIN working
      /\ DOMAIN working' = DOMAIN working \ Retired(ws)
      /\ DOMAIN closed' = DOMAIN closed \union Retired(ws)
      /\ \A c \in DOMAIN working' : working'[c] = ws[c] /\ ~Done(ws[c])
      /\ \A c \in Retired(ws) : closed'[c] = ws[c] /\ Done(ws[c])
      /\ \A c \in DOMAIN closed : closed'[c] = closed[c]
  BY <1>1, RetireMoves
<1>3. \A c \in DOMAIN working' : IsOrder(working'[c]) /\ working'[c].status \in Working
  BY <1>2 DEF Done, Working, Retirable
<1>4. \A c \in DOMAIN closed' : IsOrder(closed'[c]) /\ closed'[c].status \in Retirable
  BY <1>1, <1>2 DEF Done, Retirable, AllOrders
<1>5. AllOrders'
  BY <1>1, <1>2, <1>3, <1>4 DEF AllOrders
<1>6. AllQueues'
  BY <1>2 DEF EngineInv, AllQueues
<1> QED BY <1>5, <1>6 DEF EngineInv

LEMMA AdmitFields ==
  ASSUME EngineInv, NEW i \in Intents, NEW lat \in OutLatencies
  PROVE  /\ IsOrder(NewOrder(i, lat)) /\ QueueOK(NewOrder(i, lat))
         /\ NewOrder(i, lat).status = "Open" /\ NewOrder(i, lat).remaining = i.qty
<1> DEFINE f == NewOrder(i, lat)
<1>1. i.qty \in Nat /\ i.display \in Nat /\ lat \in Nat /\ now \in Nat
  BY FillAssumption DEF EngineInv
<1>2. DisplayOf(i) \in Nat /\ now + lat \in Nat
  BY <1>1 DEF DisplayOf, Min2
<1>3. /\ DOMAIN f = Fields /\ f.seeded = FALSE /\ f.queue = 0 /\ f.ahead = 0
      /\ f.intent = i /\ f.remaining = i.qty /\ f.displayed = DisplayOf(i)
      /\ f.effective = now + lat /\ f.cancelAt = NoTime /\ f.triggered = FALSE
      /\ f.maker = 0 /\ f.printed = 0 /\ f.status = "Open"
  BY DEF NewOrder, Fields
<1> HIDE DEF f
<1>4. IsOrder(f)
  <2>1. {f.seeded, f.triggered} \subseteq BOOLEAN
    BY <1>3
  <2>2. f.remaining <= f.intent.qty
    BY <1>1, <1>3
  <2>3. {f.remaining, f.queue, f.displayed, f.effective, f.maker, f.printed, f.ahead} \subseteq Nat
    BY <1>1, <1>2, <1>3
  <2> QED BY <1>3, <2>1, <2>2, <2>3 DEF IsOrder
<1>5. QueueOK(f)
  BY <1>3 DEF QueueOK
<1> QED BY <1>3, <1>4, <1>5 DEF f

LEMMA CancelFields ==
  ASSUME EngineInv, NEW c \in DOMAIN working, NEW lat \in CancelLatencies
  PROVE  LET f == [working[c] EXCEPT !.cancelAt = now + lat]
             w == working[c]
         IN  /\ IsOrder(f) /\ f.intent = w.intent /\ f.status = w.status
             /\ f.remaining = w.remaining /\ (QueueOK(w) => QueueOK(f))
<1> DEFINE f == [working[c] EXCEPT !.cancelAt = now + lat]
           w == working[c]
<1>1. now + lat \in Nat
  BY FillAssumption DEF EngineInv
<1>2. IsOrder(w)
  BY DEF EngineInv, AllOrders
<1> HIDE DEF w
<1>3. /\ DOMAIN f = Fields /\ f.seeded = w.seeded /\ f.queue = w.queue /\ f.ahead = w.ahead
      /\ f.intent = w.intent /\ f.remaining = w.remaining /\ f.displayed = w.displayed
      /\ f.effective = w.effective /\ f.cancelAt = now + lat /\ f.triggered = w.triggered
      /\ f.maker = w.maker /\ f.printed = w.printed /\ f.status = w.status
  BY <1>2 DEF IsOrder, Fields, w
<1> HIDE DEF f
<1>4. IsOrder(f) /\ (QueueOK(w) => QueueOK(f))
  BY <1>1, <1>2, <1>3 DEF IsOrder, QueueOK
<1> QED BY <1>3, <1>4 DEF f, w
-----------------------------------------------------------------------------
(* The invariant of the engine, action by action.                          *)

LEMMA EngineStarts == EngineInit => EngineInv
<1> SUFFICES ASSUME EngineInit PROVE EngineInv
  OBVIOUS
<1>1. DOMAIN working = {} /\ DOMAIN closed = {}
  BY DEF EngineInit
<1> QED BY <1>1 DEF EngineInit, EngineInv, AllOrders, AllQueues

LEMMA AdmitKeeps ==
  ASSUME EngineInv, NEW i \in Intents, NEW lat \in OutLatencies, Admit(i, lat)
  PROVE  /\ EngineInv'
         /\ DOMAIN working' = DOMAIN working \union {i.coid}
         /\ DOMAIN Everything' = DOMAIN Everything \union {i.coid}
         /\ i.coid \notin DOMAIN Everything
         /\ Everything'[i.coid].status = "Open"
         /\ \A c \in DOMAIN Everything : Everything'[c] = Everything[c]
<1> DEFINE f == NewOrder(i, lat)
<1>1. IsOrder(f) /\ QueueOK(f) /\ f.status = "Open" /\ i.coid \in Coids
  BY AdmitFields DEF Coids
<1> HIDE DEF f
<1>2. /\ DOMAIN working' = DOMAIN working \union {i.coid} /\ closed' = closed
      /\ i.coid \notin DOMAIN working /\ i.coid \notin DOMAIN closed
      /\ working'[i.coid] = f
      /\ \A c \in DOMAIN working : working'[c] = working[c]
  BY DEF Admit, f
<1>3. AllOrders'
  BY <1>1, <1>2 DEF EngineInv, AllOrders, Working
<1>4. AllQueues'
  BY <1>1, <1>2 DEF EngineInv, AllQueues, Admit
<1>5. EngineInv'
  BY <1>3, <1>4 DEF EngineInv, Admit
<1>6. /\ DOMAIN Everything' = DOMAIN Everything \union {i.coid}
      /\ i.coid \notin DOMAIN Everything /\ Everything'[i.coid] = f
      /\ \A c \in DOMAIN Everything : Everything'[c] = Everything[c]
  BY <1>2, LookUp, LookUpNext DEF EngineInv, AllOrders
<1> QED BY <1>1, <1>2, <1>5, <1>6

LEMMA CancelKeeps ==
  ASSUME EngineInv, NEW c \in Coids, NEW lat \in CancelLatencies, CancelOrder(c, lat)
  PROVE  /\ EngineInv'
         /\ DOMAIN Everything' = DOMAIN Everything
         /\ \A d \in DOMAIN Everything :
              /\ Everything'[d].status = Everything[d].status
              /\ Everything'[d].remaining = Everything[d].remaining
         /\ DOMAIN working' = DOMAIN working /\ closed' = closed
<1> DEFINE f == [working[c] EXCEPT !.cancelAt = now + lat]
<1>1. /\ IsOrder(f) /\ f.status = working[c].status
      /\ f.remaining = working[c].remaining /\ (QueueOK(working[c]) => QueueOK(f))
      /\ c \in DOMAIN working
  BY CancelFields DEF CancelOrder
<1>2. /\ DOMAIN working' = DOMAIN working /\ closed' = closed
      /\ working'[c] = f /\ \A d \in DOMAIN working : d # c => working'[d] = working[d]
  BY <1>1 DEF CancelOrder
<1> HIDE DEF f
<1>3. AllOrders'
  BY <1>1, <1>2 DEF EngineInv, AllOrders
<1>4. AllQueues'
  BY <1>1, <1>2 DEF EngineInv, AllQueues, CancelOrder
<1>5. EngineInv'
  BY <1>3, <1>4 DEF EngineInv, CancelOrder
<1>6. DOMAIN Everything' = DOMAIN Everything
  BY <1>2, LookUp, LookUpNext
<1>7. \A d \in DOMAIN Everything : /\ Everything'[d].status = Everything[d].status
                                   /\ Everything'[d].remaining = Everything[d].remaining
  BY <1>1, <1>2, LookUp, LookUpNext
<1> QED BY <1>2, <1>5, <1>6, <1>7

(* A pass over the whole table, as one order at a time sees it.            *)
LEMMA PassKeeps ==
  ASSUME EngineInv, NEW t \in Times, NEW r \in Records, NEW m \in Markets, OnMarket(t, r, m)
  PROVE  /\ EngineInv' /\ now' = t
         /\ working' = Keep(AfterPass(t, r, m)) /\ closed' = Close(AfterPass(t, r, m))
         /\ DOMAIN Everything' = DOMAIN Everything
         /\ \A c \in DOMAIN working : Everything'[c] = AfterPass(t, r, m)[c]
         /\ \A c \in DOMAIN closed : Everything'[c] = closed[c]
<1> DEFINE ws == AfterPass(t, r, m)
<1>1. /\ working' = Keep(ws) /\ closed' = Close(ws) /\ engine' = engine /\ now' = t
  BY DEF OnMarket, AfterPass
<1>2. /\ DOMAIN ws = DOMAIN working
      /\ \A c \in DOMAIN working : /\ Passed(working[c], ws[c], t)
                                   /\ engine.makerFill = "Queue_position" => QueueOK(ws[c])
                                   /\ ws[c].status \in Working \union Retirable
  BY PassEach
<1> HIDE DEF ws
<1>3. now' \in Nat
  BY <1>1, FillAssumption DEF Times
<1>4. EngineInv'
  BY <1>1, <1>2, <1>3, RetiringKeeps DEF Passed
<1>5. /\ DOMAIN Everything' = DOMAIN Everything
      /\ \A c \in DOMAIN working : Everything'[c] = ws[c]
      /\ \A c \in DOMAIN closed : Everything'[c] = closed[c]
  BY <1>1, <1>2, RetireMoves DEF EngineInv
<1> QED BY <1>1, <1>4, <1>5 DEF ws

LEMMA CancelAllKeeps ==
  ASSUME EngineInv, CancelAll
  PROVE  /\ EngineInv'
         /\ working' = Keep(AfterCancelAll) /\ closed' = Close(AfterCancelAll)
         /\ DOMAIN Everything' = DOMAIN Everything
         /\ \A c \in DOMAIN working : Everything'[c] = AfterCancelAll[c]
         /\ \A c \in DOMAIN closed : Everything'[c] = closed[c]
<1> DEFINE ws == AfterCancelAll
<1>1. /\ working' = Keep(ws) /\ closed' = Close(ws) /\ engine' = engine /\ now' = now
  BY DEF CancelAll, AfterCancelAll
<1>2. /\ DOMAIN ws = DOMAIN working
      /\ \A c \in DOMAIN working : /\ IsOrder(ws[c]) /\ ws[c].status = "Cancelled"
                                   /\ engine.makerFill = "Queue_position" => QueueOK(ws[c])
  BY CancelEach
<1> HIDE DEF ws
<1>3. EngineInv'
  BY <1>1, <1>2, RetiringKeeps DEF EngineInv, Retirable
<1>4. /\ DOMAIN Everything' = DOMAIN Everything
      /\ \A c \in DOMAIN working : Everything'[c] = ws[c]
      /\ \A c \in DOMAIN closed : Everything'[c] = closed[c]
  BY <1>1, <1>2, RetireMoves DEF EngineInv
<1> QED BY <1>1, <1>3, <1>4 DEF ws

LEMMA EngineStep == EngineInv /\ [EngineNext]_engineVars => EngineInv'
<1> SUFFICES ASSUME EngineInv, [EngineNext]_engineVars PROVE EngineInv'
  OBVIOUS
<1>1. CASE \E i \in Intents, lat \in OutLatencies : Admit(i, lat)
  BY <1>1, AdmitKeeps
<1>2. CASE \E c \in Coids, lat \in CancelLatencies : CancelOrder(c, lat)
  BY <1>2, CancelKeeps
<1>3. CASE \E t \in Times, r \in Records, m \in Markets : OnMarket(t, r, m)
  BY <1>3, PassKeeps
<1>4. CASE CancelAll
  BY <1>4, CancelAllKeeps
<1>5. CASE UNCHANGED engineVars
  BY <1>5 DEF engineVars, EngineInv, AllOrders, AllQueues
<1> QED BY <1>1, <1>2, <1>3, <1>4, <1>5 DEF EngineNext

LEMMA EngineHolds == EngineSpec => []EngineInv
BY EngineStarts, EngineStep, PTL DEF EngineSpec

-----------------------------------------------------------------------------
(* An order is filled only while it is live, whatever the latencies, the   *)
(* order of the records and the moment a cancel was asked for: the checks  *)
(* of on_market come before the market is looked at, for every order.      *)
THEOREM FillsOnlyWhenLive == EngineSpec => FillsWhenLive
<1> DEFINE Live(c) ==
      Everything'[c].remaining < working[c].remaining =>
         /\ working[c].effective <= now'
         /\ working[c].cancelAt = NoTime \/ now' < working[c].cancelAt
         /\ working[c].intent.tif = "GTD" => now' <= working[c].intent.until
         /\ IsStop(working[c]) => Everything'[c].triggered
<1>1. ASSUME EngineInv, [EngineNext]_engineVars, NEW c \in DOMAIN working PROVE Live(c)
  <2>1. working[c].remaining \in Nat /\ Everything[c] = working[c] /\ c \in DOMAIN Everything
    BY <1>1, LookUp DEF EngineInv, AllOrders, IsOrder
  <2>2. CASE Everything'[c].remaining = working[c].remaining
    BY <2>1, <2>2
  <2>3. CASE \E i \in Intents, lat \in OutLatencies : Admit(i, lat)
    BY <1>1, <2>1, <2>2, <2>3, AdmitKeeps
  <2>4. CASE \E d \in Coids, lat \in CancelLatencies : CancelOrder(d, lat)
    BY <1>1, <2>1, <2>2, <2>4, CancelKeeps
  <2>5. CASE \E t \in Times, r \in Records, m \in Markets : OnMarket(t, r, m)
    <3>1. PICK t \in Times, r \in Records, m \in Markets : OnMarket(t, r, m)
      BY <2>5
    <3>2. now' = t /\ Everything'[c] = AfterPass(t, r, m)[c]
      BY <1>1, <3>1, PassKeeps
    <3>3. Passed(working[c], AfterPass(t, r, m)[c], t)
      BY <1>1, PassEach
    <3> QED BY <3>2, <3>3 DEF Passed
  <2>6. CASE CancelAll
    <3>1. Everything'[c].remaining = working[c].remaining
      BY <1>1, <2>6, CancelAllKeeps, CancelEach
    <3> QED BY <2>2, <3>1
  <2>7. CASE UNCHANGED engineVars
    <3>1. Everything' = Everything
      BY <2>7 DEF engineVars, Everything
    <3> QED BY <2>1, <2>2, <3>1
  <2> QED BY <1>1, <2>3, <2>4, <2>5, <2>6, <2>7 DEF EngineNext
<1>2. EngineInv /\ [EngineNext]_engineVars => [\A c \in DOMAIN working : Live(c)]_engineVars
  BY <1>1
<1> QED BY <1>2, EngineHolds, PTL DEF EngineSpec, FillsWhenLive
-----------------------------------------------------------------------------
(* The transition table.                                                   *)

LEMMA WorkingMayBecome ==
  ASSUME NEW from \in Working, NEW to \in {"Partially_filled"} \union Retirable
  PROVE  Legal!OnePass(from, to)
<1>1. from = "Open" \/ from = "Partially_filled"
  BY DEF Working
<1>2. to \in {"Partially_filled", "Filled", "Cancelled", "Expired"}
  BY DEF Retirable
<1>3. Legal!CanTransition(from, to)
  BY <1>1, <1>2, SMT DEF Legal!CanTransition
<1> QED BY <1>3 DEF Legal!OnePass

LEMMA StatusesKnown ==
  ASSUME EngineInv
  PROVE  /\ DOMAIN Everything \subseteq Coids
         /\ \A c \in DOMAIN Everything : Everything[c].status \in Working \union Retirable
BY LookUp DEF EngineInv, AllOrders

LEMMA StatusesKnownNext ==
  ASSUME EngineInv'
  PROVE  /\ DOMAIN Everything' \subseteq Coids
         /\ \A c \in DOMAIN Everything' : Everything'[c].status \in Working \union Retirable
BY LookUpNext DEF EngineInv, AllOrders

(* A pass and a cancel-all alike leave closed orders alone and take each   *)
(* working order along the table.                                          *)
LEMMA RetiringIsLegal ==
  ASSUME EngineInv, EngineInv', DOMAIN Everything' = DOMAIN Everything,
         \A c \in DOMAIN closed : Everything'[c] = closed[c],
         \A c \in DOMAIN working : \/ Everything'[c].status = working[c].status
                                   \/ Everything'[c].status \in {"Partially_filled"} \union Retirable,
         NEW c \in DOMAIN Everything
  PROVE  \/ Everything'[c].status = Everything[c].status
         \/ Legal!OnePass(Everything[c].status, Everything'[c].status)
<1>1. CASE c \in DOMAIN working
  <2>1. Everything[c].status \in Working
    BY <1>1, LookUp DEF EngineInv, AllOrders
  <2>2. \/ Everything'[c].status = Everything[c].status
        \/ Everything'[c].status \in {"Partially_filled"} \union Retirable
    BY <1>1, LookUp
  <2> QED BY <2>1, <2>2, WorkingMayBecome
<1>2. CASE c \in DOMAIN closed /\ c \notin DOMAIN working
  BY <1>2, LookUp
<1> QED BY <1>1, <1>2, LookUp

LEMMA StepIsLegal ==
  ASSUME EngineInv, [EngineNext]_engineVars, NEW c \in DOMAIN Everything
  PROVE  /\ c \in DOMAIN Everything'
         /\ \/ Everything'[c].status = Everything[c].status
            \/ Legal!OnePass(Everything[c].status, Everything'[c].status)
<1>1. EngineInv'
  BY EngineStep
<1>2. CASE \E i \in Intents, lat \in OutLatencies : Admit(i, lat)
  BY <1>2, AdmitKeeps
<1>3. CASE \E d \in Coids, lat \in CancelLatencies : CancelOrder(d, lat)
  BY <1>3, CancelKeeps
<1>4. CASE \E t \in Times, r \in Records, m \in Markets : OnMarket(t, r, m)
  <2>1. PICK t \in Times, r \in Records, m \in Markets : OnMarket(t, r, m)
    BY <1>4
  <2>2. /\ DOMAIN Everything' = DOMAIN Everything
        /\ \A d \in DOMAIN working : Everything'[d] = AfterPass(t, r, m)[d]
        /\ \A d \in DOMAIN closed : Everything'[d] = closed[d]
    BY <2>1, PassKeeps
  <2>3. \A d \in DOMAIN working : \/ Everything'[d].status = working[d].status
                                  \/ Everything'[d].status \in {"Partially_filled"} \union Retirable
    BY <2>2, PassEach DEF Passed, Retirable
  <2> QED BY <1>1, <2>2, <2>3, RetiringIsLegal
<1>5. CASE CancelAll
  <2>1. /\ DOMAIN Everything' = DOMAIN Everything
        /\ \A d \in DOMAIN working : Everything'[d] = AfterCancelAll[d]
        /\ \A d \in DOMAIN closed : Everything'[d] = closed[d]
    BY <1>5, CancelAllKeeps
  <2>2. \A d \in DOMAIN working : Everything'[d].status \in Retirable
    BY <2>1, CancelEach DEF Retirable
  <2> QED BY <1>1, <2>1, <2>2, RetiringIsLegal
<1>6. CASE UNCHANGED engineVars
  <2>1. Everything' = Everything
    BY <1>6 DEF engineVars, Everything
  <2> QED BY <2>1
<1> QED BY <1>2, <1>3, <1>4, <1>5, <1>6 DEF EngineNext

LEMMA OnlyAdmitAdds ==
  ASSUME EngineInv, [EngineNext]_engineVars, NEW c \in DOMAIN Everything', c \notin DOMAIN Everything
  PROVE  Everything'[c].status = "Open"
<1>1. CASE \E i \in Intents, lat \in OutLatencies : Admit(i, lat)
  BY <1>1, AdmitKeeps
<1>2. CASE \E d \in Coids, lat \in CancelLatencies : CancelOrder(d, lat)
  BY <1>2, CancelKeeps
<1>3. CASE \E t \in Times, r \in Records, m \in Markets : OnMarket(t, r, m)
  BY <1>3, PassKeeps
<1>4. CASE CancelAll
  BY <1>4, CancelAllKeeps
<1>5. CASE UNCHANGED engineVars
  <2>1. Everything' = Everything
    BY <1>5 DEF engineVars, Everything
  <2> QED BY <2>1
<1> QED BY <1>1, <1>2, <1>3, <1>4, <1>5 DEF EngineNext

(* The engine implements the order lifecycle: it creates orders pending,   *)
(* and every step takes every order along one row of the table, or two in  *)
(* one pass; a retired order never moves again.                            *)
THEOREM OrdersFollowTheTable == EngineSpec => FollowsLifecycle
<1>1. EngineInit => Legal!Init
  <2> SUFFICES ASSUME EngineInit PROVE Legal!Init
    OBVIOUS
  <2>1. DOMAIN Everything = {}
    BY LookUp DEF EngineInit
  <2> QED BY <2>1 DEF Legal!Init, StatusOf
<1>2. EngineInv /\ [EngineNext]_engineVars => [Legal!Move]_StatusOf
  <2> SUFFICES ASSUME EngineInv, [EngineNext]_engineVars PROVE Legal!Move
    OBVIOUS
  <2>1. EngineInv'
    BY EngineStep
  <2>2. /\ \A c \in Coids : StatusOf[c] = IF c \in DOMAIN Everything THEN Everything[c].status
                                                                     ELSE "Pending"
        /\ DOMAIN StatusOf' = Coids
        /\ StatusOf' = [c \in Coids |-> StatusOf'[c]]
        /\ \A c \in Coids : StatusOf'[c] = IF c \in DOMAIN Everything' THEN Everything'[c].status
                                                                       ELSE "Pending"
    BY DEF StatusOf
  <2>3. \A c \in Coids : StatusOf'[c] \in Legal!Statuses
    BY <2>1, <2>2, StatusesKnownNext DEF Legal!Statuses, Working, Retirable
  <2>4. ASSUME NEW c \in Coids
        PROVE  StatusOf'[c] = StatusOf[c] \/ Legal!OnePass(StatusOf[c], StatusOf'[c])
    <3>1. CASE c \in DOMAIN Everything
      BY <2>2, <3>1, StepIsLegal
    <3>2. CASE c \notin DOMAIN Everything /\ c \in DOMAIN Everything'
      <4>1. StatusOf[c] = "Pending" /\ StatusOf'[c] = "Open"
        BY <2>2, <3>2, OnlyAdmitAdds
      <4> QED BY <4>1 DEF Legal!OnePass, Legal!CanTransition
    <3>3. CASE c \notin DOMAIN Everything /\ c \notin DOMAIN Everything'
      BY <2>2, <3>3
    <3> QED BY <3>1, <3>2, <3>3
  <2> QED BY <2>2, <2>3, <2>4 DEF Legal!Move
<1> QED BY <1>1, <1>2, EngineHolds, PTL DEF EngineSpec, FollowsLifecycle, Legal!Lifecycle
-----------------------------------------------------------------------------
(* The books: every order is counted once, and so is every unit of it.     *)

Units(ws, S) == UNION {{c} \X (1 .. ws[c].remaining) : c \in S}
Lost(ws, S) == {c \in S : ws[c].status # "Filled"}

LEMMA UnitsAreFinite ==
  ASSUME NEW ws, NEW S, IsFiniteSet(S), \A c \in S : ws[c].remaining \in Nat
  PROVE  /\ IsFiniteSet(Units(ws, S)) /\ Left(ws, S) = Cardinality(Units(ws, S))
         /\ Left(ws, S) \in Nat
<1> DEFINE Of(c) == {c} \X (1 .. ws[c].remaining)
           T == {Of(c) : c \in S}
           g == [c \in S |-> Of(c)]
<1>1. g \in Surjection(S, T)
  BY DEF Surjection
<1>2. IsFiniteSet(T)
  BY <1>1, FS_Surjection
<1>3. ASSUME NEW c \in S PROVE IsFiniteSet(Of(c))
  <2>1. IsFiniteSet(1 .. ws[c].remaining)
    BY FS_Interval
  <2>2. IsFiniteSet({c})
    BY FS_Singleton
  <2> QED BY <2>1, <2>2, FS_Product
<1>4. IsFiniteSet(UNION T)
  <2>1. \A U \in T : IsFiniteSet(U)
    BY <1>3
  <2> HIDE DEF T
  <2> QED BY <1>2, <2>1, FS_UNION
<1> QED BY <1>4, FS_CardinalityType DEF Units, Left

LEMMA UnitOf ==
  ASSUME NEW ws, NEW S, NEW u
  PROVE  u \in Units(ws, S) <=> \E c \in S : \E k \in 1 .. ws[c].remaining : u = <<c, k>>
<1>1. ASSUME u \in Units(ws, S) PROVE \E c \in S : \E k \in 1 .. ws[c].remaining : u = <<c, k>>
  <2>1. PICK c \in S : u \in {c} \X (1 .. ws[c].remaining)
    BY <1>1 DEF Units
  <2> QED BY <2>1
<1>2. ASSUME NEW c \in S, NEW k \in 1 .. ws[c].remaining, u = <<c, k>> PROVE u \in Units(ws, S)
  <2>1. u \in {c} \X (1 .. ws[c].remaining)
    BY <1>2
  <2> QED BY <2>1 DEF Units
<1> QED BY <1>1, <1>2

LEMMA TwoParts ==
  ASSUME NEW S, NEW T, IsFiniteSet(S), IsFiniteSet(T), S \cap T = {}
  PROVE  /\ IsFiniteSet(S \union T) /\ Cardinality(S \union T) = Cardinality(S) + Cardinality(T)
         /\ Cardinality(S) \in Nat /\ Cardinality(T) \in Nat
<1>1. Cardinality({}) = 0
  BY FS_EmptySet
<1>2. /\ IsFiniteSet(S \union T)
      /\ Cardinality(S \union T) = Cardinality(S) + Cardinality(T) - Cardinality(S \cap T)
  BY FS_Union
<1>3. Cardinality(S) \in Nat /\ Cardinality(T) \in Nat
  BY FS_CardinalityType
<1>4. Cardinality(S \cap T) = 0
  BY <1>1
<1> QED BY <1>2, <1>3, <1>4

Counters == {"admitted", "cancelled", "expired", "fok", "ioc", "stops", "unfilled"}

BooksInv ==
  /\ DOMAIN stats = Counters /\ \A k \in Counters : stats[k] \in Nat
  /\ IsFiniteSet(DOMAIN working) /\ IsFiniteSet(DOMAIN closed)
  /\ \A c \in DOMAIN closed : closed[c].status = "Filled" => closed[c].remaining = 0
  /\ stats.admitted = Cardinality(DOMAIN Everything)
  /\ Cardinality(Lost(closed, DOMAIN closed))
       = stats.cancelled + stats.expired + stats.fok + stats.ioc
  /\ stats.unfilled = Left(closed, DOMAIN closed)

(* Retiring adds to the books what it retires, no more and no less: the    *)
(* orders that were not filled, and what they had left.                    *)
LEMMA RetiringCounts ==
  ASSUME EngineInv, BooksInv, NEW ws, DOMAIN ws = DOMAIN working,
         \A c \in DOMAIN working : IsOrder(ws[c]),
         \A c \in DOMAIN working : ws[c].status = "Filled" => ws[c].remaining = 0,
         working' = Keep(ws), closed' = Close(ws)
  PROVE  LET N == Lost(ws, Retired(ws))
         IN  /\ IsFiniteSet(DOMAIN working') /\ IsFiniteSet(DOMAIN closed') /\ IsFiniteSet(N)
             /\ \A c \in DOMAIN closed' : closed'[c].status = "Filled" => closed'[c].remaining = 0
             /\ DOMAIN Everything' = DOMAIN Everything
             /\ Cardinality(Lost(closed', DOMAIN closed'))
                  = Cardinality(Lost(closed, DOMAIN closed)) + Cardinality(N)
             /\ Unfilled(ws) \in Nat
             /\ Left(closed', DOMAIN closed') = Left(closed, DOMAIN closed) + Unfilled(ws)
<1> DEFINE R == Retired(ws)
           N == Lost(ws, R)
           L == Lost(closed, DOMAIN closed)
<1>1. /\ R \subseteq DOMAIN working
      /\ DOMAIN working' = DOMAIN working \ R
      /\ DOMAIN closed' = DOMAIN closed \union R
      /\ \A c \in R : closed'[c] = ws[c]
      /\ \A c \in DOMAIN closed : closed'[c] = closed[c]
      /\ DOMAIN Everything' = DOMAIN Everything
  BY RetireMoves DEF EngineInv
<1>2. DOMAIN closed \cap R = {}
  BY <1>1 DEF EngineInv, AllOrders
<1>3. Unfilled(ws) = Left(ws, N)
  BY DEF Unfilled, Lost
<1> HIDE DEF R
<1>4. IsFiniteSet(R) /\ IsFiniteSet(DOMAIN working') /\ IsFiniteSet(N) /\ IsFiniteSet(L)
  BY <1>1, FS_Subset DEF BooksInv, Lost
<1>5. IsFiniteSet(DOMAIN closed')
  <2>1. IsFiniteSet(DOMAIN closed)
    BY DEF BooksInv
  <2>2. IsFiniteSet(DOMAIN closed \union R)
    BY <1>4, <2>1, FS_Union
  <2> QED BY <1>1, <2>2
<1>6. \A c \in DOMAIN closed' : closed'[c].status = "Filled" => closed'[c].remaining = 0
  BY <1>1 DEF BooksInv
<1>7. Lost(closed', DOMAIN closed') = L \union N /\ L \cap N = {}
  BY <1>1, <1>2 DEF Lost
<1>8. Cardinality(Lost(closed', DOMAIN closed')) = Cardinality(L) + Cardinality(N)
  BY <1>4, <1>7, TwoParts
<1>9. /\ \A c \in DOMAIN closed : closed[c].remaining \in Nat
      /\ \A c \in DOMAIN closed' : closed'[c].remaining \in Nat
      /\ \A c \in N : ws[c].remaining \in Nat
  BY <1>1 DEF EngineInv, AllOrders, IsOrder, Lost
<1>10. Units(closed', DOMAIN closed') = Units(closed, DOMAIN closed) \union Units(ws, N)
  <2>1. ASSUME NEW u \in Units(closed', DOMAIN closed')
        PROVE  u \in Units(closed, DOMAIN closed) \union Units(ws, N)
    <3>1. PICK c \in DOMAIN closed' : \E k \in 1 .. closed'[c].remaining : u = <<c, k>>
      BY <2>1, UnitOf
    <3>2. CASE c \in DOMAIN closed
      BY <1>1, <3>1, <3>2, UnitOf
    <3>3. CASE c \in R
      <4>1. closed'[c] = ws[c] /\ ws[c].remaining \in Nat
        BY <1>1, <1>9, <3>3
      <4>2. ws[c].remaining # 0
        BY <3>1, <4>1
      <4>3. c \in N
        BY <1>1, <3>3, <4>2 DEF Lost
      <4> QED BY <3>1, <4>1, <4>3, UnitOf
    <3> QED BY <1>1, <3>1, <3>2, <3>3
  <2>2. ASSUME NEW u \in Units(closed, DOMAIN closed) PROVE u \in Units(closed', DOMAIN closed')
    <3>1. PICK c \in DOMAIN closed : \E k \in 1 .. closed[c].remaining : u = <<c, k>>
      BY <2>2, UnitOf
    <3> QED BY <1>1, <3>1, UnitOf
  <2>3. ASSUME NEW u \in Units(ws, N) PROVE u \in Units(closed', DOMAIN closed')
    <3>1. PICK c \in N : \E k \in 1 .. ws[c].remaining : u = <<c, k>>
      BY <2>3, UnitOf
    <3>2. c \in R
      BY DEF Lost
    <3> QED BY <1>1, <3>1, <3>2, UnitOf
  <2> QED BY <2>1, <2>2, <2>3
<1>11. Units(closed, DOMAIN closed) \cap Units(ws, N) = {}
  <2>1. ASSUME NEW u \in Units(closed, DOMAIN closed), u \in Units(ws, N) PROVE FALSE
    <3>1. PICK c \in DOMAIN closed : \E k \in 1 .. closed[c].remaining : u = <<c, k>>
      BY UnitOf
    <3>2. PICK d \in N : \E k \in 1 .. ws[d].remaining : u = <<d, k>>
      BY <2>1, UnitOf
    <3>3. c = d /\ d \in R
      BY <3>1, <3>2 DEF Lost
    <3> QED BY <1>2, <3>3
  <2> QED BY <2>1
<1>12. /\ IsFiniteSet(Units(closed, DOMAIN closed)) /\ IsFiniteSet(Units(ws, N))
       /\ Left(closed, DOMAIN closed) = Cardinality(Units(closed, DOMAIN closed))
       /\ Left(ws, N) = Cardinality(Units(ws, N)) /\ Left(ws, N) \in Nat
       /\ Left(closed', DOMAIN closed') = Cardinality(Units(closed', DOMAIN closed'))
  BY <1>4, <1>5, <1>9, UnitsAreFinite DEF BooksInv
<1>13. Left(closed', DOMAIN closed') = Left(closed, DOMAIN closed) + Left(ws, N)
  <2>1. Cardinality(Units(closed, DOMAIN closed) \union Units(ws, N))
          = Cardinality(Units(closed, DOMAIN closed)) + Cardinality(Units(ws, N))
    BY <1>11, <1>12, TwoParts
  <2> QED BY <1>10, <1>12, <2>1
<1> QED BY <1>1, <1>3, <1>4, <1>5, <1>6, <1>8, <1>12, <1>13 DEF R
LEMMA BooksStart == EngineInit => BooksInv
<1> SUFFICES ASSUME EngineInit PROVE BooksInv
  OBVIOUS
<1>1. DOMAIN working = {} /\ DOMAIN closed = {} /\ DOMAIN Everything = {}
  BY LookUp DEF EngineInit
<1>2. DOMAIN stats = Counters /\ \A k \in Counters : stats[k] = 0
  BY DEF EngineInit, NoStats, Counters
<1>3. IsFiniteSet({}) /\ Cardinality({}) = 0
  BY FS_EmptySet
<1>4. Lost(closed, DOMAIN closed) = {} /\ Units(closed, DOMAIN closed) = {}
  BY <1>1 DEF Lost, Units
<1>5. Left(closed, DOMAIN closed) = 0
  BY <1>3, <1>4 DEF Left, Units
<1>6. /\ stats.admitted = 0 /\ stats.unfilled = 0
      /\ stats.cancelled + stats.expired + stats.fok + stats.ioc = 0
  BY <1>2 DEF Counters
<1>7. \A k \in Counters : stats[k] \in Nat
  BY <1>2
<1>8. /\ IsFiniteSet(DOMAIN working) /\ IsFiniteSet(DOMAIN closed)
      /\ Cardinality(DOMAIN Everything) = 0 /\ Cardinality(Lost(closed, DOMAIN closed)) = 0
  BY <1>1, <1>3, <1>4
<1> QED BY <1>1, <1>2, <1>5, <1>6, <1>7, <1>8 DEF BooksInv

LEMMA AdmitBooks ==
  ASSUME EngineInv, BooksInv, NEW i \in Intents, NEW lat \in OutLatencies, Admit(i, lat)
  PROVE  BooksInv'
<1>1. /\ DOMAIN working' = DOMAIN working \union {i.coid}
      /\ DOMAIN Everything' = DOMAIN Everything \union {i.coid}
      /\ i.coid \notin DOMAIN Everything
  BY AdmitKeeps
<1>2. closed' = closed /\ stats' = [stats EXCEPT !.admitted = @ + 1]
  BY DEF Admit
<1>3. /\ DOMAIN stats' = Counters /\ stats'.admitted = stats.admitted + 1
      /\ \A k \in Counters \ {"admitted"} : stats'[k] = stats[k]
  BY <1>2 DEF BooksInv, Counters
<1>4. \A k \in Counters : stats'[k] \in Nat
  BY <1>3 DEF BooksInv
<1>5. IsFiniteSet(DOMAIN working')
  BY <1>1, FS_AddElement DEF BooksInv
<1>6. stats'.admitted = Cardinality(DOMAIN Everything')
  <2>1. IsFiniteSet(DOMAIN Everything)
    BY LookUp, FS_Union DEF BooksInv
  <2> QED BY <1>1, <1>3, <2>1, FS_AddElement DEF BooksInv
<1>7. /\ stats'.cancelled = stats.cancelled /\ stats'.expired = stats.expired
      /\ stats'.fok = stats.fok /\ stats'.ioc = stats.ioc /\ stats'.unfilled = stats.unfilled
  BY <1>3 DEF Counters
<1> QED BY <1>2, <1>3, <1>4, <1>5, <1>6, <1>7 DEF BooksInv

LEMMA CancelBooks ==
  ASSUME EngineInv, BooksInv, NEW c \in Coids, NEW lat \in CancelLatencies, CancelOrder(c, lat)
  PROVE  BooksInv'
<1>1. DOMAIN Everything' = DOMAIN Everything /\ DOMAIN working' = DOMAIN working /\ closed' = closed
  BY CancelKeeps
<1>2. stats' = stats
  BY DEF CancelOrder
<1> QED BY <1>1, <1>2 DEF BooksInv

(* What a pass retires unfilled goes to exactly one of the four counters.  *)
LEMMA OneReasonEach ==
  ASSUME EngineInv, BooksInv, NEW t \in Times, NEW r \in Records, NEW m \in Markets
  PROVE  LET ws == AfterPass(t, r, m)
         IN  /\ {CancelledFor(ws, t, "cancel"), CancelledFor(ws, t, "FOK"),
                 CancelledFor(ws, t, "IOC"), ExpiredIn(ws)} \subseteq Nat
             /\ Cardinality(Lost(ws, Retired(ws)))
                  = CancelledFor(ws, t, "cancel") + ExpiredIn(ws)
                      + CancelledFor(ws, t, "FOK") + CancelledFor(ws, t, "IOC")
<1> DEFINE ws == AfterPass(t, r, m)
           N == Lost(ws, Retired(ws))
           For(why) == {c \in Retired(ws) : ws[c].status = "Cancelled" /\ Reason(c, t) = why}
           E == {c \in Retired(ws) : ws[c].status = "Expired"}
<1>1. /\ DOMAIN ws = DOMAIN working
      /\ \A c \in DOMAIN working : Passed(working[c], ws[c], t)
  BY PassEach
<1> HIDE DEF ws
<1>2. IsFiniteSet(Retired(ws)) /\ Retired(ws) \subseteq DOMAIN working
  BY <1>1, FS_Subset DEF BooksInv, Retired
<1>3. ASSUME NEW c \in Retired(ws), ws[c].status = "Cancelled"
      PROVE  Reason(c, t) \in {"cancel", "FOK", "IOC"}
  <2>1. Passed(working[c], ws[c], t) /\ working[c].status \in Working
    BY <1>1, <1>2 DEF EngineInv, AllOrders
  <2>2. CancelIsDue(working[c], t) \/ working[c].intent.tif \in {"FOK", "IOC"}
    BY <1>3, <2>1 DEF Passed, Working
  <2> QED BY <2>2 DEF Reason
<1>4. \A c \in Retired(ws) : ws[c].status \in {"Filled", "Cancelled", "Expired"}
  BY DEF Retired, Done
<1>5. N = ((For("cancel") \union E) \union For("FOK")) \union For("IOC")
  BY <1>3, <1>4 DEF Lost
<1>6. /\ IsFiniteSet(For("cancel")) /\ IsFiniteSet(For("FOK")) /\ IsFiniteSet(For("IOC"))
      /\ IsFiniteSet(E)
  BY <1>2, FS_Subset
<1>7. /\ For("cancel") \cap E = {}
      /\ (For("cancel") \union E) \cap For("FOK") = {}
      /\ ((For("cancel") \union E) \union For("FOK")) \cap For("IOC") = {}
  OBVIOUS
<1>8. /\ CancelledFor(ws, t, "cancel") = Cardinality(For("cancel"))
      /\ CancelledFor(ws, t, "FOK") = Cardinality(For("FOK"))
      /\ CancelledFor(ws, t, "IOC") = Cardinality(For("IOC"))
      /\ ExpiredIn(ws) = Cardinality(E)
  BY DEF CancelledFor, ExpiredIn
<1> HIDE DEF For, E, N
<1>9. /\ IsFiniteSet(For("cancel") \union E)
      /\ Cardinality(For("cancel") \union E) = Cardinality(For("cancel")) + Cardinality(E)
      /\ Cardinality(For("cancel")) \in Nat /\ Cardinality(E) \in Nat
  BY <1>6, <1>7, TwoParts
<1>10. /\ IsFiniteSet((For("cancel") \union E) \union For("FOK"))
       /\ Cardinality((For("cancel") \union E) \union For("FOK"))
            = Cardinality(For("cancel") \union E) + Cardinality(For("FOK"))
       /\ Cardinality(For("FOK")) \in Nat
  BY <1>6, <1>7, <1>9, TwoParts
<1>11. /\ Cardinality(((For("cancel") \union E) \union For("FOK")) \union For("IOC"))
            = Cardinality((For("cancel") \union E) \union For("FOK")) + Cardinality(For("IOC"))
       /\ Cardinality(For("IOC")) \in Nat
  BY <1>6, <1>7, <1>10, TwoParts
<1>12. /\ {Cardinality(For("cancel")), Cardinality(For("FOK")), Cardinality(For("IOC")),
           Cardinality(E)} \subseteq Nat
       /\ Cardinality(N) = Cardinality(For("cancel")) + Cardinality(E)
                             + Cardinality(For("FOK")) + Cardinality(For("IOC"))
  BY <1>5, <1>9, <1>10, <1>11
<1> QED BY <1>8, <1>12 DEF ws, N

LEMMA PassBooks ==
  ASSUME EngineInv, BooksInv, NEW t \in Times, NEW r \in Records, NEW m \in Markets,
         OnMarket(t, r, m)
  PROVE  BooksInv'
<1> DEFINE ws == AfterPass(t, r, m)
           N == Lost(ws, Retired(ws))
<1>1. /\ working' = Keep(ws) /\ closed' = Close(ws)
      /\ stats' = [stats EXCEPT !.cancelled = @ + CancelledFor(ws, t, "cancel"),
                                !.fok = @ + CancelledFor(ws, t, "FOK"),
                                !.ioc = @ + CancelledFor(ws, t, "IOC"),
                                !.expired = @ + ExpiredIn(ws),
                                !.stops = @ + TriggeredIn(ws),
                                !.unfilled = @ + Unfilled(ws)]
  BY DEF OnMarket, AfterPass
<1>2. /\ DOMAIN ws = DOMAIN working
      /\ \A c \in DOMAIN working : Passed(working[c], ws[c], t)
  BY PassEach
<1>3. /\ {CancelledFor(ws, t, "cancel"), CancelledFor(ws, t, "FOK"),
          CancelledFor(ws, t, "IOC"), ExpiredIn(ws)} \subseteq Nat
      /\ Cardinality(N) = CancelledFor(ws, t, "cancel") + ExpiredIn(ws)
                            + CancelledFor(ws, t, "FOK") + CancelledFor(ws, t, "IOC")
  BY OneReasonEach
<1> HIDE DEF ws
<1>4. \A c \in DOMAIN working : ws[c].status = "Filled" => ws[c].remaining = 0
  BY <1>2 DEF Passed, EngineInv, AllOrders, Working
<1>5. /\ IsFiniteSet(DOMAIN working') /\ IsFiniteSet(DOMAIN closed')
      /\ \A c \in DOMAIN closed' : closed'[c].status = "Filled" => closed'[c].remaining = 0
      /\ DOMAIN Everything' = DOMAIN Everything
      /\ Cardinality(Lost(closed', DOMAIN closed'))
           = Cardinality(Lost(closed, DOMAIN closed)) + Cardinality(N)
      /\ Unfilled(ws) \in Nat
      /\ Left(closed', DOMAIN closed') = Left(closed, DOMAIN closed) + Unfilled(ws)
  BY <1>1, <1>2, <1>4, RetiringCounts DEF Passed
<1>6. TriggeredIn(ws) \in Nat
  <2>1. IsFiniteSet({c \in DOMAIN ws : ws[c].triggered /\ ~working[c].triggered})
    BY <1>2, FS_Subset DEF BooksInv
  <2> QED BY <2>1, FS_CardinalityType DEF TriggeredIn
<1>7. /\ DOMAIN stats' = Counters
      /\ stats'.admitted = stats.admitted
      /\ stats'.cancelled = stats.cancelled + CancelledFor(ws, t, "cancel")
      /\ stats'.fok = stats.fok + CancelledFor(ws, t, "FOK")
      /\ stats'.ioc = stats.ioc + CancelledFor(ws, t, "IOC")
      /\ stats'.expired = stats.expired + ExpiredIn(ws)
      /\ stats'.stops = stats.stops + TriggeredIn(ws)
      /\ stats'.unfilled = stats.unfilled + Unfilled(ws)
  BY <1>1 DEF BooksInv, Counters
<1>8. \A k \in Counters : stats[k] \in Nat
  BY DEF BooksInv
<1>9. /\ stats.admitted \in Nat /\ stats.cancelled \in Nat /\ stats.fok \in Nat
      /\ stats.ioc \in Nat /\ stats.expired \in Nat /\ stats.stops \in Nat /\ stats.unfilled \in Nat
  BY <1>8 DEF Counters
<1>10. /\ stats'.admitted \in Nat /\ stats'.cancelled \in Nat /\ stats'.fok \in Nat
       /\ stats'.ioc \in Nat /\ stats'.expired \in Nat /\ stats'.stops \in Nat
       /\ stats'.unfilled \in Nat
  BY <1>3, <1>5, <1>6, <1>7, <1>9
<1>11. \A k \in Counters : stats'[k] \in Nat
  BY <1>10 DEF Counters
<1>12. Cardinality(Lost(closed', DOMAIN closed'))
         = stats'.cancelled + stats'.expired + stats'.fok + stats'.ioc
  BY <1>3, <1>5, <1>7, <1>9 DEF BooksInv
<1>13. stats'.admitted = Cardinality(DOMAIN Everything')
       /\ stats'.unfilled = Left(closed', DOMAIN closed')
  BY <1>5, <1>7 DEF BooksInv
<1> QED BY <1>5, <1>7, <1>11, <1>12, <1>13 DEF BooksInv

LEMMA CancelAllBooks ==
  ASSUME EngineInv, BooksInv, CancelAll
  PROVE  BooksInv'
<1> DEFINE ws == AfterCancelAll
           N == Lost(ws, Retired(ws))
<1>1. /\ working' = Keep(ws) /\ closed' = Close(ws)
      /\ stats' = [stats EXCEPT !.cancelled = @ + Cardinality(DOMAIN ws),
                                !.unfilled = @ + Unfilled(ws)]
  BY DEF CancelAll, AfterCancelAll
<1>2. /\ DOMAIN ws = DOMAIN working
      /\ \A c \in DOMAIN working : IsOrder(ws[c]) /\ ws[c].status = "Cancelled"
  BY CancelEach
<1> HIDE DEF ws
<1>3. N = DOMAIN ws
  BY <1>2 DEF Lost, Retired, Done
<1>4. /\ IsFiniteSet(DOMAIN working') /\ IsFiniteSet(DOMAIN closed')
      /\ \A c \in DOMAIN closed' : closed'[c].status = "Filled" => closed'[c].remaining = 0
      /\ DOMAIN Everything' = DOMAIN Everything
      /\ Cardinality(Lost(closed', DOMAIN closed'))
           = Cardinality(Lost(closed, DOMAIN closed)) + Cardinality(N)
      /\ Unfilled(ws) \in Nat
      /\ Left(closed', DOMAIN closed') = Left(closed, DOMAIN closed) + Unfilled(ws)
  BY <1>1, <1>2, RetiringCounts
<1>5. Cardinality(DOMAIN ws) \in Nat
  BY <1>2, FS_CardinalityType DEF BooksInv
<1>6. /\ DOMAIN stats' = Counters
      /\ stats'.cancelled = stats.cancelled + Cardinality(DOMAIN ws)
      /\ stats'.unfilled = stats.unfilled + Unfilled(ws)
      /\ stats'.admitted = stats.admitted /\ stats'.fok = stats.fok /\ stats'.ioc = stats.ioc
      /\ stats'.expired = stats.expired /\ stats'.stops = stats.stops
  BY <1>1 DEF BooksInv, Counters
<1>7. \A k \in Counters : stats[k] \in Nat
  BY DEF BooksInv
<1>8. /\ stats.admitted \in Nat /\ stats.cancelled \in Nat /\ stats.fok \in Nat
      /\ stats.ioc \in Nat /\ stats.expired \in Nat /\ stats.stops \in Nat /\ stats.unfilled \in Nat
  BY <1>7 DEF Counters
<1>9. \A k \in Counters : stats'[k] \in Nat
  BY <1>4, <1>5, <1>6, <1>8 DEF Counters
<1>10. Cardinality(Lost(closed', DOMAIN closed'))
         = stats'.cancelled + stats'.expired + stats'.fok + stats'.ioc
  BY <1>3, <1>4, <1>5, <1>6, <1>8 DEF BooksInv
<1>11. stats'.admitted = Cardinality(DOMAIN Everything')
       /\ stats'.unfilled = Left(closed', DOMAIN closed')
  BY <1>4, <1>6 DEF BooksInv
<1> QED BY <1>4, <1>6, <1>9, <1>10, <1>11 DEF BooksInv

LEMMA BooksStep == EngineInv /\ BooksInv /\ [EngineNext]_engineVars => BooksInv'
<1> SUFFICES ASSUME EngineInv, BooksInv, [EngineNext]_engineVars PROVE BooksInv'
  OBVIOUS
<1>1. CASE \E i \in Intents, lat \in OutLatencies : Admit(i, lat)
  BY <1>1, AdmitBooks
<1>2. CASE \E c \in Coids, lat \in CancelLatencies : CancelOrder(c, lat)
  BY <1>2, CancelBooks
<1>3. CASE \E t \in Times, r \in Records, m \in Markets : OnMarket(t, r, m)
  BY <1>3, PassBooks
<1>4. CASE CancelAll
  BY <1>4, CancelAllBooks
<1>5. CASE UNCHANGED engineVars
  BY <1>5 DEF engineVars, BooksInv, Everything
<1> QED BY <1>1, <1>2, <1>3, <1>4, <1>5 DEF EngineNext

(* Quantities balance: a passive order never fills with volume that was    *)
(* ahead of it in the queue; every admitted order is working, filled or    *)
(* counted under one reason by on_market or cancel_all; and what retired   *)
(* orders had left is what the engine reports as unfilled.                 *)
THEOREM QuantitiesAlwaysBalance == EngineSpec => []QuantitiesBalance
<1>1. EngineInv => QueueIsRespected
  <2> SUFFICES ASSUME EngineInv, engine.makerFill = "Queue_position", NEW c \in DOMAIN Everything,
                      Everything[c].maker > 0
               PROVE  Everything[c].maker <= Everything[c].printed - Everything[c].ahead
    BY DEF QueueIsRespected
  <2>1. QueueOK(Everything[c])
    BY LookUp DEF EngineInv, AllQueues
  <2> QED BY <2>1 DEF QueueOK
<1>2. BooksInv => NothingUncounted
  BY DEF BooksInv, NothingUncounted, Lost
<1>3. EngineSpec => []BooksInv
  BY BooksStart, BooksStep, EngineHolds, PTL DEF EngineSpec
<1> QED BY <1>1, <1>2, <1>3, EngineHolds, PTL DEF QuantitiesBalance
-----------------------------------------------------------------------------
(* Every variable stays in its domain, and no order is in both tables: an  *)
(* order never fills more than it was for.                                 *)
THEOREM EngineTyped == EngineSpec => []TypeOK
<1> DEFINE Clock == now \in Times /\ passes \in 0 .. MaxPasses
<1>1. EngineInit => Clock
  BY FillAssumption DEF EngineInit, Times
<1>2. Clock /\ [EngineNext]_engineVars => Clock'
  <2> SUFFICES ASSUME Clock, [EngineNext]_engineVars PROVE Clock'
    OBVIOUS
  <2>1. CASE UNCHANGED <<now, passes>>
    BY <2>1
  <2>2. ASSUME NEW t \in Times, NEW r \in Records, NEW m \in Markets, OnMarket(t, r, m)
        PROVE  Clock'
    BY <2>2, FillAssumption DEF OnMarket
  <2>3. CASE UNCHANGED engineVars
    BY <2>1, <2>3 DEF engineVars
  <2> QED BY <2>1, <2>2, <2>3 DEF EngineNext, Admit, CancelOrder, CancelAll
<1>3. EngineInv /\ BooksInv /\ Clock => TypeOK
  <2> SUFFICES ASSUME EngineInv, BooksInv, Clock PROVE TypeOK
    OBVIOUS
  <2>1. ASSUME NEW c \in DOMAIN Everything PROVE IsOrder(Everything[c])
    BY LookUp DEF EngineInv, AllOrders
  <2>2. ASSUME NEW c \in DOMAIN Everything
        PROVE  /\ Everything[c].remaining \in 0 .. Everything[c].intent.qty
               /\ Everything[c].queue \in Nat /\ Everything[c].displayed \in Nat
    <3>1. Everything[c].intent.qty \in Nat
      BY <2>1, FillAssumption DEF IsOrder
    <3> QED BY <2>1, <3>1 DEF IsOrder
  <2> QED BY <2>2 DEF TypeOK, EngineInv, AllOrders, BooksInv
<1>4. EngineSpec => []BooksInv
  BY BooksStart, BooksStep, EngineHolds, PTL DEF EngineSpec
<1> QED BY <1>1, <1>2, <1>3, <1>4, EngineHolds, PTL DEF EngineSpec
=============================================================================
