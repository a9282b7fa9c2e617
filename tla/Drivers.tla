------------------------------- MODULE Drivers -------------------------------
(***************************************************************************)
(* The two drivers of one strategy: the live runner (runtime/instance.ml,  *)
(* step and finish) and the backtest (backtest/engine.ml, step and what    *)
(* follows the data).  Both are fed the same records, some of them late:   *)
(* the live runner takes those too, the backtest's source drops them.      *)
(* Each driver has a generator of its own for the jitter of the latencies. *)
(* The strategy is a plan: what it answers to its n-th event of each kind, *)
(* so that both drivers run the same one.  An order fills as a whole at the record's    *)
(* price (FillEngine has the venue in detail); bars and pairs, which are   *)
(* further events of the same record, are left out.                        *)
(***************************************************************************)
EXTENDS Book, Sequences, SequencesExt

CONSTANTS Prices,      \* prices a record may carry
          Steps,       \* time from the last record to the next, negative for a late one
          DayLength,
          Capital,     \* initial_capital
          Configs,     \* see DriversAssumption
          MaxRecords,  \* bound of the model
          MaxLate,     \* bound of the model: records that the backtest drops
          Never, NoLimits

Kinds == {"tick", "fill", "cancelled", "rejected", "timer", "stop"}

Actions ==
  [kind : {"submit"}, coid : Nat, symbol : Symbols, signed : Int, limit : Nat]
    \union [kind : {"cancel"}, coid : Nat] \union [kind : {"timer"}, delay : Nat]

ASSUME DriversAssumption ==
  /\ Prices \subseteq Nat \ {0} /\ Steps \subseteq Int /\ DayLength \in Nat \ {0}
  /\ Capital \in Nat \ {0} /\ MaxRecords \in Nat /\ MaxLate \in Nat /\ Never \notin Int
  /\ \A c \in Configs :
       /\ {c.outLatency, c.inLatency, c.fee, c.borrow} \subseteq Nat
       /\ \A driver \in {"live", "back"} :
            Len(c.offsets[driver]) > 0 /\ c.offsets[driver] \in Seq(Int)
       /\ c.flatten \in BOOLEAN
       /\ DOMAIN c.plan \subseteq Kinds \X Nat
       /\ \A e \in DOMAIN c.plan : c.plan[e] \in Actions

VARIABLES cfg,    \* chosen once, never changed
          live,   \* the live runner's state
          back,   \* the backtest's state
          fed,    \* records so far
          ended   \* finish ran, the data is over

vars == <<cfg, live, back, fed, ended>>

(* Time 0 is some midnight.  The fields from `blotter` on count or         *)
(* remember; no step depends on `heard`, `refused` and `paid`.             *)
Start ==
  [now |-> 0, day |-> Never, dayStart |-> Capital,
   view |-> [s \in Symbols |-> 0],
   qty |-> [s \in Symbols |-> 0], last |-> [s \in Symbols |-> 0], known |-> {}, cash |-> Capital,
   peak |-> Capital, equity |-> Capital,
   draws |-> 0, working |-> <<>>, inbound |-> <<>>, seen |-> [k \in Kinds |-> 0],
   blotter |-> <<>>, submitted |-> 0, rejected |-> 0,
   heard |-> <<>>, refused |-> {}, navs |-> <<>>, paid |-> 0]

Init == /\ cfg \in Configs
        /\ live = Start /\ back = Start
        /\ fed = 0 /\ ended = FALSE

-----------------------------------------------------------------------------
(* Wrong variants, one plausible slip of the code each. *)

RollsNever(d, t) == d.dayStart
MarksNothing(d, r) == d

-----------------------------------------------------------------------------
(* Actions of the strategy. *)

Silent == [kind |-> "none"]
Answer(kind, n) == IF <<kind, n>> \in DOMAIN cfg.plan THEN cfg.plan[<<kind, n>>] ELSE Silent

(* Messages to the strategy that the backtest holds back, in the order it  *)
(* releases them: by delivery time, then by age.                           *)
DueBy(d, at) == Cardinality({i \in DOMAIN d.inbound : d.inbound[i].at <= at})
Later(d, at, ev) ==
  [d EXCEPT !.inbound = InsertAt(@, DueBy(d, at) + 1, [at |-> at, ev |-> ev])]

(* Latencies: a base and what the driver's generator draws next, never     *)
(* below zero.  The offsets a driver draws are those of cfg.offsets, over  *)
(* again; without jitter they are all 0.                                   *)
Drawn(d, base, driver) ==
  LET offsets == cfg.offsets[driver]
      v == base + offsets[(d.draws % Len(offsets)) + 1]
  IN  IF v < 0 THEN 0 ELSE v
Draw(d) == [d EXCEPT !.draws = @ + 1]

Delayed(d, ev) == Later(Draw(d), d.now + Drawn(d, cfg.inLatency, "back"), ev)

Admitted(d, a, driver) ==
  [Draw(d) EXCEPT
     !.submitted = @ + 1,
     !.working = Append(@, [coid |-> a.coid, symbol |-> a.symbol, signed |-> a.signed,
                            limit |-> a.limit, cancelAt |-> Never,
                            effective |-> d.now + Drawn(d, cfg.outLatency, driver)])]

(* The live runner only counts a refusal; the backtest tells the strategy. *)
Refused(d, a, driver) ==
  LET counted == [d EXCEPT !.rejected = @ + 1,
                           !.refused = @ \union {[held |-> d.qty[a.symbol], signed |-> a.signed]}]
  IN  IF driver = "live" THEN counted
      ELSE Delayed(counted, [kind |-> "rejected", n |-> counted.rejected])

Gate(d, a) ==
  cfg.limits = NoLimits
    \/ PassesGate(cfg.limits, d, a, d.view[a.symbol], d.peak, d.equity, d.dayStart)

Submit(d, a, driver) ==
  IF d.view[a.symbol] = 0 THEN d
  ELSE IF Gate(d, a) THEN Admitted(d, a, driver) ELSE Refused(d, a, driver)

(* A replace is a cancel: neither driver amends. *)
Cancel(d, a, driver) ==
  LET at == d.now + Drawn(d, cfg.outLatency, driver)
      Cancelled(o) == IF o.coid = a.coid THEN [o EXCEPT !.cancelAt = at] ELSE o
  IN  IF \A i \in DOMAIN d.working : d.working[i].coid # a.coid THEN d
      ELSE [Draw(d) EXCEPT !.working = [i \in DOMAIN @ |-> Cancelled(@[i])]]

(* The live runner drops timers. *)
HandleAction(d, a, driver) ==
  CASE a.kind = "submit" -> Submit(d, a, driver)
    [] a.kind = "cancel" -> Cancel(d, a, driver)
    [] a.kind = "timer" /\ driver = "back" ->
         Later(d, d.now + a.delay, [kind |-> "timer", n |-> d.now + a.delay])
    [] OTHER -> d

(* dispatch_to_strategy *)
Hear(d, ev, driver) ==
  LET n == d.seen[ev.kind] + 1
      told == [d EXCEPT !.seen[ev.kind] = n, !.heard = Append(@, [ev |-> ev, at |-> d.now])]
  IN  HandleAction(told, Answer(ev.kind, n), driver)

-----------------------------------------------------------------------------
(* One matching pass of the fill engine over the orders that have reached  *)
(* the venue: what becomes of order o when symbol trades at price.         *)

AtVenue(d, o) == o.effective <= d.now
CancelDue(d, o) == o.cancelAt # Never /\ o.cancelAt <= d.now
PriceOk(o, price) == o.limit = 0 \/ o.signed * price <= o.signed * o.limit

Outcome(d, o, symbol, price) ==
  CASE ~AtVenue(d, o) -> "works"
    [] AtVenue(d, o) /\ CancelDue(d, o) -> "cancelled"
    [] AtVenue(d, o) /\ ~CancelDue(d, o) ->
         IF o.symbol = symbol /\ PriceOk(o, price) THEN "filled" ELSE "works"

BookFill(d, o, price) ==
  [Trade(d, o.symbol, o.signed, price, cfg.fee)
     EXCEPT !.known = @ \union {o.symbol},
            !.blotter = Append(@, [coid |-> o.coid, symbol |-> o.symbol, signed |-> o.signed,
                                   price |-> price])]

FillOf(d) == [kind |-> "fill", n |-> Len(d.blotter)]
CancelOf(o) == [kind |-> "cancelled", n |-> o.coid]

(* The live runner tells the strategy at once, the backtest later; nobody  *)
(* is told of the final pass.                                              *)
Tell(d, ev, driver) ==
  CASE driver = "live"   -> Hear(d, ev, driver)
    [] driver = "back"   -> Delayed(d, ev)
    [] driver = "nobody" -> d

(* What happens to an order, or a message that is due, in its turn. *)
Happen(d, h, driver) ==
  CASE h.what = "works"     -> [d EXCEPT !.working = Append(@, h.order)]
    [] h.what = "filled"    -> LET b == BookFill(d, h.order, h.price) IN Tell(b, FillOf(b), driver)
    [] h.what = "cancelled" -> Tell(d, CancelOf(h.order), driver)
    [] h.what = "message"   -> Hear(d, h.ev, driver)

(* All happenings of hs of one kind, one after the other. *)
Run(d, hs, what, driver) ==
  LET after[n \in 0 .. Len(hs)] ==
        IF n = 0 THEN d
        ELSE IF hs[n].what = what THEN Happen(after[n - 1], hs[n], driver) ELSE after[n - 1]
  IN  after[Len(hs)]

(* The pass decides over all orders, then the fills and the cancels are told. *)
Outcomes(d, r) ==
  [i \in DOMAIN d.working |->
     [what |-> Outcome(d, d.working[i], r.symbol, r.price), order |-> d.working[i],
      price |-> r.price]]

Match(d, r, driver) ==
  LET hs == Outcomes(d, r)
      left == Run([d EXCEPT !.working = <<>>], hs, "works", driver)
  IN  Run(Run(left, hs, "filled", driver), hs, "cancelled", driver)

-----------------------------------------------------------------------------
(* The parts of a step that the drivers share. *)

DayOf(t) == t \div DayLength

(* The first record opens the first day: it is not a roll-over. *)
DayStart(d, t) == IF d.day \notin {Never, DayOf(t)} THEN Nav(d) ELSE d.dayStart

Arrive(d, r) ==
  [d EXCEPT !.now = r.t, !.dayStart = DayStart(d, r.t), !.day = DayOf(r.t),
            !.view[r.symbol] = r.price]

(* update_position_prices finds a position for symbols traded before. *)
Mark(d, r) == IF r.symbol \in d.known THEN [d EXCEPT !.last[r.symbol] = d.view[r.symbol]] ELSE d

(* Nothing for a record that is late. *)
Financing(d, t0) == IF d.now <= t0 THEN 0 ELSE ShortExposure(d) * cfg.borrow * (d.now - t0)

(* Mark to market, accrue financing since t0, feed the drawdown tracker. *)
Settle(d0, r, t0) ==
  LET d1 == Mark(d0, r)
      cost == Financing(d1, t0)
      d2 == [d1 EXCEPT !.cash = @ - cost, !.paid = @ + cost]
  IN  [d2 EXCEPT !.peak = IF Nav(d2) > @ THEN Nav(d2) ELSE @,
                 !.equity = Nav(d2),
                 !.navs = Append(@, [day |-> d2.day, nav |-> Nav(d2)])]

FirstTime(d, r) == IF fed = 0 THEN r.t ELSE d.now
Tick == [kind |-> "tick", n |-> 0]

-----------------------------------------------------------------------------
(* Wrong variant: the strategy hears of the market before orders are matched. *)
LiveTickFirst(d, r) ==
  Settle(Match(Hear(Arrive(d, r), Tick, "live"), r, "live"), r, FirstTime(d, r))

LiveStep(d, r) ==
  Settle(Hear(Match(Arrive(d, r), r, "live"), Tick, "live"), r, FirstTime(d, r))

(* The backtest first releases what is due. *)
ReleaseInbound(d) ==
  LET due == DueBy(d, d.now)
      Message(i) == [what |-> "message", ev |-> d.inbound[i].ev]
  IN  Run([d EXCEPT !.inbound = SubSeq(@, due + 1, Len(@))], [i \in 1 .. due |-> Message(i)],
          "message", "back")

BackStep(d, r) ==
  Settle(Hear(Match(ReleaseInbound(Arrive(d, r)), r, "back"), Tick, "back"), r, FirstTime(d, r))

(* The backtest's source never rewinds: it drops a record that is late. *)
IsLate(r) == fed > 0 /\ r.t < back.now
Dropped == fed - Len(back.navs)

Step(r) ==
  /\ ~ended /\ fed < MaxRecords
  /\ IsLate(r) => Dropped < MaxLate
  /\ live' = LiveStep(live, r)
  /\ back' = IF IsLate(r) THEN back ELSE BackStep(back, r)
  /\ fed' = fed + 1
  /\ UNCHANGED <<cfg, ended>>

-----------------------------------------------------------------------------
(* finish of the live runner: on_stop, then every order is cancelled. *)
LiveFinish(d) ==
  [HandleAction(d, Answer("stop", 1), "live") EXCEPT !.working = <<>>]

(* The end of the backtest: on_stop, one more pass against the last known  *)
(* price of every symbol, flatten, cancel.  Nobody is told.                *)
FinalPass(d, s) == Match(d, [symbol |-> s, price |-> d.view[s]], "nobody")

FinalPasses(d) ==
  LET ss == SetToSeq({s \in Symbols : d.view[s] > 0})
      after[n \in 0 .. Len(ss)] == IF n = 0 THEN d ELSE FinalPass(after[n - 1], ss[n])
  IN  after[Len(ss)]

(* Every position is traded away at its symbol's last price, free of fees. *)
Flatten(d) ==
  IF ~cfg.flatten THEN d
  ELSE [d EXCEPT !.qty = [s \in Symbols |-> AddTrade(@[s], -@[s])],
                 !.cash = @ + SumFunction([s \in Symbols |-> d.qty[s] * d.view[s]])]

BackFinish(d) ==
  LET d1 == HandleAction(d, Answer("stop", 1), "back")
      d2 == Flatten(FinalPasses(d1))
  IN  [d1 EXCEPT !.qty = d2.qty, !.cash = d2.cash, !.known = d2.known, !.blotter = d2.blotter,
                 !.working = <<>>]

Finish ==
  /\ ~ended /\ ended' = TRUE
  /\ live' = LiveFinish(live) /\ back' = BackFinish(back)
  /\ UNCHANGED <<cfg, fed>>

Next ==
  \/ \E s \in Symbols, p \in Prices, dt \in Steps :
       Step([symbol |-> s, price |-> p, t |-> live.now + dt])
  \/ Finish

Spec == Init /\ [][Next]_vars

-----------------------------------------------------------------------------
Both == {live, back}

(* A strategy that acts on market events and at its end only. *)
ActsOnMarketOnly == \A e \in DOMAIN cfg.plan : e[1] \in {"tick", "stop"}

NoJitter(driver) == \A i \in DOMAIN cfg.offsets[driver] : cfg.offsets[driver][i] = 0
NoneLate == Dropped = 0

(* test_parity.ml: one strategy and one record sequence give the same      *)
(* fills, counters and NAV in both drivers - for what that test compares:  *)
(* a strategy that does not react to its own fills, latencies without      *)
(* jitter, and records of which none is late.                              *)
DriversAgree ==
  ActsOnMarketOnly /\ NoJitter("live") /\ NoJitter("back") /\ NoneLate /\ ~ended =>
    /\ live.blotter = back.blotter
    /\ live.submitted = back.submitted /\ live.rejected = back.rejected
    /\ Nav(live) = Nav(back)

(* What the fills have made at the last prices. *)
Made(d) == SumFunction([i \in DOMAIN d.blotter |->
                          LET f == d.blotter[i] IN f.signed * (d.view[f.symbol] - f.price)])

(* What the fills of a symbol have bought and not sold. *)
Bought(b, s) == [i \in DOMAIN b |-> IF b[i].symbol = s THEN b[i].signed ELSE 0]
Holding(b, s) == SumFunction(Bought(b, s))

(* A fill bought back a part of a short, or more than all of it: then      *)
(* position.ml books the wrong holding (ReducingShrinks).                  *)
CoversInPart(b) ==
  \E i \in DOMAIN b :
    LET held == Holding(SubSeq(b, 1, i - 1), b[i].symbol)
    IN  held < 0 /\ b[i].signed >= 0 /\ held + b[i].signed # 0

FillsAmong(events) == {i \in DOMAIN events : events[i].ev.kind = "fill"}

(* The fills among the events are those numbered 1 to n, each once.        *)
EachFillOnce(events, n) ==
  /\ {events[i].ev.n : i \in FillsAmong(events)} = 1 .. n
  /\ \A i, j \in FillsAmong(events) : events[i].ev.n = events[j].ev.n => i = j
FillsInOrder(events) ==
  \A i, j \in FillsAmong(events) : i < j => events[i].ev.n < events[j].ev.n

(* Portfolio.add_trade, update_position_prices, accrue_financing: NAV is   *)
(* the capital plus what each fill has made, less commissions and          *)
(* financing - as long as no short is covered in part.  A position the     *)
(* final pass opens is not marked, unless it is flattened; then the        *)
(* backtest holds nothing at its end (flatten_at_end).                     *)
NavFollowsTheFills ==
  /\ \A d \in Both : ~CoversInPart(d.blotter) /\ (ended => cfg.flatten) =>
       Nav(d) = Capital + Made(d) - cfg.fee * Len(d.blotter) - d.paid
  /\ ended /\ cfg.flatten => /\ back.working = <<>>
                            /\ \A s \in Symbols : back.qty[s] = 0

(* dispatch_to_strategy: the strategy hears of every fill once, and live in *)
(* order; what it has not heard of yet the backtest still holds back, and   *)
(* releases it in order unless the jitter lets a later fill overtake.       *)
HearsEveryFill ==
  /\ EachFillOnce(live.heard, Len(live.blotter)) /\ FillsInOrder(live.heard)
  /\ ~ended => /\ EachFillOnce(back.heard \o back.inbound, Len(back.blotter))
               /\ NoJitter("back") => FillsInOrder(back.heard \o back.inbound)

(* The book and what the strategy hears both agree with the blotter.       *)
BooksBalance == NavFollowsTheFills /\ HearsEveryFill

(* risk_limits.ml, "a gate that blocks risk-reducing orders is worse than  *)
(* no gate": no order that moves a position towards flat, without crossing *)
(* it, is ever refused.                                                    *)
ReducingIsNeverRefused ==
  \A d \in Both : \A x \in d.refused :
    ~(Abs(x.held + x.signed) < Abs(x.held) /\ x.held * (x.held + x.signed) >= 0)

Highest(navs) == Max({Capital} \union {navs[i].nav : i \in DOMAIN navs})
OpenedAt(d) == LET others == {i \in DOMAIN d.navs : d.navs[i].day # d.day}
               IN  IF others = {} THEN Capital ELSE d.navs[Max(others)].nav

(* The gate measures losses from where they began: its peak is the highest *)
(* NAV of all records, not of the sampled ones, its drawdown is that of    *)
(* the last record, and the day's loss counts from the NAV at the last     *)
(* record of another day (of an earlier one, unless a record was late).    *)
GateSeesTrueLosses ==
  \A d \in Both : d.navs # <<>> =>
    /\ d.peak = Highest(d.navs)
    /\ d.equity = Last(d.navs).nav
    /\ d.dayStart = OpenedAt(d)

(* position.ml, "Reducing position (opposite side)", and risk_limits.ml,   *)
(* "move the position towards flat": a fill opposite to the holding and no *)
(* larger than it leaves a smaller holding on the same side.               *)
ReducingShrinks ==
  [][\A s \in Symbols :
       LET q == live.qty[s]
           fills == SelectSeq(live'.blotter, LAMBDA f : f.symbol = s)
           new == Len(live'.blotter) - Len(live.blotter)
       IN  new = 1 /\ fills # <<>> /\ Last(live'.blotter).symbol = s
             /\ q * Last(fills).signed < 0 /\ Abs(Last(fills).signed) <= Abs(q)
           => Abs(live'.qty[s]) < Abs(q) /\ live'.qty[s] * q >= 0]_vars
=============================================================================
