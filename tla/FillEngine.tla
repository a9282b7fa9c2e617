----------------------------- MODULE FillEngine -----------------------------
(***************************************************************************)
(* The fill engine (backtest/fill_engine.ml), which simulates the venue    *)
(* for the backtest and for the live runtime: admit, cancel, one matching  *)
(* pass per market record, cancel_all.  Prices, sizes and times are small  *)
(* integers.  The market at a pass (touch, depth a taker can hit, depth    *)
(* resting at the order's price, last price) is any of Markets; fees and   *)
(* average prices are left out, a taker pays the touch.                    *)
(***************************************************************************)
EXTENDS Integers, FiniteSets, Functions

CONSTANTS Intents,       \* order intents, each with its own client_order_id
          Markets,       \* market contexts
          Records,       \* market records
          Engines,       \* engine configurations, see below
          OutLatencies, CancelLatencies,   \* base latency with its jitter
          MaxTime, MaxPasses,              \* bounds of the model
          NoTime

Times == 0 .. MaxTime

ASSUME FillAssumption ==
  /\ Engines \subseteq [makerFill : {"Queue_position", "Touch_cross", "Optimistic"},
                        stopTrigger : {"last", "mid", "touch"},
                        allowPartial : BOOLEAN,
                        intents : SUBSET Intents]   \* what the strategy submits
  /\ OutLatencies \subseteq Nat /\ CancelLatencies \subseteq Nat
  /\ MaxTime \in Nat /\ MaxPasses \in Nat /\ NoTime \notin Int
  /\ \A i \in Intents : {i.qty, i.display, i.until} \subseteq Nat
  /\ \A m \in Markets : {m.depth, m.resting} \subseteq Nat
  /\ \A r \in Records : r.size \in Nat
  /\ \A c \in Engines : \A i, j \in c.intents : i.coid = j.coid => i = j

Coids == {i.coid : i \in Intents}

VARIABLES engine,    \* t.cfg: chosen once, never changed
          now,       \* event time of the record being processed
          working,   \* client_order_id -> order at or on its way to the venue
          closed,    \* client_order_id -> retired order
          stats,     \* counters
          passes     \* passes so far (bounds the model)

engineVars == <<engine, now, working, closed, stats, passes>>

NoStats == [admitted |-> 0, cancelled |-> 0, expired |-> 0, fok |-> 0, ioc |-> 0,
            stops |-> 0, unfilled |-> 0]

EngineInit == /\ engine \in Engines
              /\ now = 0 /\ working = <<>> /\ closed = <<>> /\ stats = NoStats /\ passes = 0

-----------------------------------------------------------------------------
(* Wrong variants, one plausible slip of the code each. *)

KeepEverything(ws) == ws
SpillAll(w, size) == size
CancelNoticed(w, t) == FALSE
RetireNone(ws) == {}

-----------------------------------------------------------------------------
(* admit and cancel.                                                       *)

Min2(a, b) == IF a < b THEN a ELSE b

DisplayOf(i) == IF i.kind = "Iceberg" THEN Min2(i.display, i.qty) ELSE i.qty

(* The fields from `maker` on are history: what its prints and fills were. *)
NewOrder(i, lat) ==
  [intent |-> i, status |-> "Open", remaining |-> i.qty, queue |-> 0, seeded |-> FALSE,
   displayed |-> DisplayOf(i), effective |-> now + lat, cancelAt |-> NoTime, triggered |-> FALSE,
   maker |-> 0, printed |-> 0, ahead |-> 0]

Admit(i, lat) ==
  /\ i \in engine.intents /\ i.coid \notin DOMAIN working \union DOMAIN closed
  /\ working' = [c \in DOMAIN working \union {i.coid} |->
                   IF c = i.coid THEN NewOrder(i, lat) ELSE working[c]]
  /\ stats' = [stats EXCEPT !.admitted = @ + 1]
  /\ UNCHANGED <<engine, now, closed, passes>>

(* A second request overwrites the time of the first. *)
CancelOrder(c, lat) ==
  /\ c \in DOMAIN working
  /\ working' = [working EXCEPT ![c].cancelAt = now + lat]
  /\ UNCHANGED <<engine, now, closed, stats, passes>>

-----------------------------------------------------------------------------
(* One order in one matching pass: w the order, t the time, r the record,  *)
(* m the market.                                                           *)

Arrived(w, t) == w.effective <= t
CancelIsDue(w, t) == w.cancelAt # NoTime /\ t >= w.cancelAt
ExpiredAt(w, t) == w.intent.tif = "GTD" /\ t > w.intent.until

IsStop(w) == w.intent.kind \in {"Stop", "Stop_limit"}
HasLimit(w) == w.intent.kind = "Limit" \/ (w.intent.kind = "Stop_limit" /\ w.triggered)

(* Twice the price, so that the mid is an integer. *)
TriggerPrice2(w, m) ==
  CASE engine.stopTrigger = "last" -> 2 * m.last
    [] engine.stopTrigger = "mid"  -> m.bid + m.ask
    [] engine.stopTrigger = "touch" -> 2 * (IF w.intent.side = "Buy" THEN m.ask ELSE m.bid)

Fires(w, m) ==
  /\ IsStop(w) /\ ~w.triggered
  /\ IF w.intent.side = "Buy" THEN TriggerPrice2(w, m) >= 2 * w.intent.sp
                              ELSE TriggerPrice2(w, m) <= 2 * w.intent.sp

Trigger(w, m) == [w EXCEPT !.triggered = @ \/ Fires(w, m)]
Armed(w) == IsStop(w) => w.triggered

Touch(w, m) == IF w.intent.side = "Buy" THEN m.ask ELSE m.bid
Worse(w, p, q) == IF w.intent.side = "Buy" THEN p > q ELSE p < q

Marketable(w, m) ==
  HasLimit(w) => w.intent.aggressive \/ ~Worse(w, Touch(w, m), w.intent.px)

(* record_fill, then refresh_iceberg. *)
Filled(w, q, maker) ==
  LET left == w.remaining - q IN
  [w EXCEPT !.remaining = left,
            !.displayed = IF w.intent.kind = "Iceberg" /\ left > 0
                          THEN Min2(w.intent.display, left) ELSE left,
            !.seeded = IF w.intent.kind = "Iceberg" /\ left > 0 THEN FALSE ELSE @,
            !.status = IF left = 0 THEN "Filled" ELSE "Partially_filled",
            !.maker = IF maker THEN @ + q ELSE @]

Complete(w) == w.remaining = 0

(* Fill or kill is decided before crossing, immediate or cancel after. *)
Take(w, m) ==
  LET can == Min2(m.depth, w.remaining)
      f == Filled(w, can, FALSE)
  IN  CASE w.intent.tif = "FOK" /\ can < w.remaining -> [w EXCEPT !.status = "Cancelled"]
        [] w.intent.tif # "FOK" /\ ~engine.allowPartial /\ can < w.remaining -> w
        [] OTHER -> IF can = 0 THEN w
                    ELSE IF w.intent.tif = "IOC" /\ ~Complete(f)
                         THEN [f EXCEPT !.status = "Cancelled"] ELSE f

(* seed_queue: at the first print after arrival, from the depth now at px. *)
Seed(w, m) ==
  IF w.seeded THEN w
  ELSE LET q == IF engine.makerFill = "Queue_position" THEN m.resting ELSE 0
       IN  [w EXCEPT !.seeded = TRUE, !.queue = q, !.ahead = @ + q]

Through(w, r) == ~Worse(w, r.price, w.intent.px)
Slice(w) == Min2(w.remaining, w.displayed)
Spill(w, size) == IF size > w.queue THEN size - w.queue ELSE 0

MakerQuantity(w, r) ==
  CASE engine.makerFill = "Optimistic"     -> Slice(w)
    [] engine.makerFill = "Touch_cross"    -> Min2(Slice(w), r.size)
    [] engine.makerFill = "Queue_position" -> Min2(Slice(w), Spill(w, r.size))

Rest(w0, r, m) ==
  LET w == Seed(w0, m)
      q == MakerQuantity(w, r)
      after == [w EXCEPT !.queue = IF @ > r.size THEN @ - r.size ELSE 0,
                         !.printed = @ + r.size]
      f == Filled(after, q, TRUE)
  IN  IF ~Through(w, r) THEN w
      ELSE IF q = 0 THEN after ELSE f

MatchOrder(w0, r, m) ==
  LET w == Trigger(w0, m)
  IN  IF ~Armed(w) \/ w.remaining = 0 THEN w
      ELSE IF Marketable(w, m) THEN Take(w, m)
      ELSE IF r.kind = "print" THEN Rest(w, r, m)
      ELSE w

(* Arrival, then cancel, then expiry, and only then the market. *)
Process(w, t, r, m) ==
  IF ~Arrived(w, t) THEN w
  ELSE IF CancelIsDue(w, t) THEN [w EXCEPT !.status = "Cancelled"]
  ELSE IF ExpiredAt(w, t) THEN [w EXCEPT !.status = "Expired"]
  ELSE IF w.intent.symbol # r.symbol THEN w
  ELSE MatchOrder(w, r, m)

-----------------------------------------------------------------------------
(* on_market and cancel_all. *)

Done(w) == w.status \in {"Filled", "Cancelled", "Expired"}
Retired(ws) == {c \in DOMAIN ws : Done(ws[c])}
Keep(ws) == Restrict(ws, DOMAIN ws \ Retired(ws))
Close(ws) == [c \in DOMAIN closed \union Retired(ws) |->
                IF c \in Retired(ws) THEN ws[c] ELSE closed[c]]

(* What the orders in S have left, as a set of units. *)
Left(ws, S) == Cardinality(UNION {{c} \X (1 .. ws[c].remaining) : c \in S})

Unfilled(ws) == Left(ws, {c \in Retired(ws) : ws[c].status # "Filled"})

(* Which counter a cancelled order goes to: a due cancel comes first. *)
Reason(c, t) == IF CancelIsDue(working[c], t) THEN "cancel" ELSE working[c].intent.tif
CancelledFor(ws, t, why) ==
  Cardinality({c \in Retired(ws) : ws[c].status = "Cancelled" /\ Reason(c, t) = why})
ExpiredIn(ws) == Cardinality({c \in Retired(ws) : ws[c].status = "Expired"})
TriggeredIn(ws) == Cardinality({c \in DOMAIN ws : ws[c].triggered /\ ~working[c].triggered})

OnMarket(t, r, m) ==
  /\ passes < MaxPasses /\ passes' = passes + 1 /\ now' = t /\ UNCHANGED engine
  /\ LET ws == [c \in DOMAIN working |-> Process(working[c], t, r, m)]
     IN  /\ working' = Keep(ws)
         /\ closed' = Close(ws)
         /\ stats' = [stats EXCEPT !.cancelled = @ + CancelledFor(ws, t, "cancel"),
                                   !.fok = @ + CancelledFor(ws, t, "FOK"),
                                   !.ioc = @ + CancelledFor(ws, t, "IOC"),
                                   !.expired = @ + ExpiredIn(ws),
                                   !.stops = @ + TriggeredIn(ws),
                                   !.unfilled = @ + Unfilled(ws)]

CancelAll ==
  /\ DOMAIN working # {}
  /\ LET ws == [c \in DOMAIN working |-> [working[c] EXCEPT !.status = "Cancelled"]]
     IN  /\ working' = Keep(ws)
         /\ closed' = Close(ws)
         /\ stats' = [stats EXCEPT !.cancelled = @ + Cardinality(DOMAIN ws),
                                   !.unfilled = @ + Unfilled(ws)]
  /\ UNCHANGED <<engine, now, passes>>

EngineNext ==
  \/ \E i \in Intents, lat \in OutLatencies : Admit(i, lat)
  \/ \E c \in Coids, lat \in CancelLatencies : CancelOrder(c, lat)
  \/ \E t \in Times, r \in Records, m \in Markets : OnMarket(t, r, m)
  \/ CancelAll
EngineSpec == EngineInit /\ [][EngineNext]_engineVars

-----------------------------------------------------------------------------
Everything == [c \in DOMAIN working \union DOMAIN closed |->
                 IF c \in DOMAIN working THEN working[c] ELSE closed[c]]
FilledOf(w) == w.intent.qty - w.remaining

(* Every variable stays in its domain; no order is working and closed. *)
TypeOK ==
  /\ now \in Times /\ passes \in 0 .. MaxPasses
  /\ DOMAIN working \subseteq Coids /\ DOMAIN closed \subseteq Coids
  /\ DOMAIN working \cap DOMAIN closed = {}
  /\ \A c \in DOMAIN Everything :
       /\ Everything[c].remaining \in 0 .. Everything[c].intent.qty
       /\ Everything[c].queue \in Nat /\ Everything[c].displayed \in Nat
  /\ \A k \in DOMAIN stats : stats[k] \in Nat


(* A fill happens only at the venue, never after a cancel took effect there,*)
(* never after a good-till-date order's date, and to a stop order only once *)
(* it is triggered.                                                         *)
FillsWhenLive ==
  [][\A c \in DOMAIN working :
       Everything'[c].remaining < working[c].remaining =>
         /\ working[c].effective <= now'
         /\ working[c].cancelAt = NoTime \/ now' < working[c].cancelAt
         /\ working[c].intent.tif = "GTD" => now' <= working[c].intent.until
         /\ IsStop(working[c]) => Everything'[c].triggered]_engineVars

(* Quantities balance.  A passive order is filled only with the volume     *)
(* printed through its price beyond what was ahead of it; every admitted   *)
(* order is working, was filled, or is counted under exactly one reason;   *)
(* what was asked for is filled, unfilled or still working.                *)
QueueIsRespected ==
  engine.makerFill = "Queue_position" =>
    \A c \in DOMAIN Everything :
      LET w == Everything[c]
      IN  w.maker > 0 => w.maker <= w.printed - w.ahead

NothingUncounted ==
  /\ stats.admitted = Cardinality(DOMAIN Everything)
  /\ Cardinality({c \in DOMAIN closed : closed[c].status # "Filled"})
       = stats.cancelled + stats.expired + stats.fok + stats.ioc
  /\ stats.unfilled = Left(closed, DOMAIN closed)

QuantitiesBalance == QueueIsRespected /\ NothingUncounted

(* Every order follows the transition table of order_state.ml. *)
StatusOf == [c \in Coids |-> IF c \in DOMAIN Everything THEN Everything[c].status ELSE "Pending"]
Legal == INSTANCE OrderLifecycle WITH Orders <- Coids, status <- StatusOf
FollowsLifecycle == Legal!Lifecycle
=============================================================================
