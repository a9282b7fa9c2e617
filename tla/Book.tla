-------------------------------- MODULE Book --------------------------------
(***************************************************************************)
(* The arithmetic of a strategy's book (domain/portfolio/position.ml,      *)
(* portfolio.ml) and the pre-trade gate (risk_management/risk_limits.ml).  *)
(* A book b has the fields qty and last (one entry per symbol) and cash;   *)
(* limits are percentages, so every test is a product of integers.         *)
(* Average cost and realized profit, which no decision reads, are left out.*)
(***************************************************************************)
EXTENDS Integers, FiniteSetsExt

CONSTANT Symbols

ASSUME SymbolsAssumption == IsFiniteSet(Symbols)

Abs(n) == IF n < 0 THEN -n ELSE n

-----------------------------------------------------------------------------
(* Wrong variants, one plausible slip of the code each. *)

AlwaysAdds(q, s) == IF q > 0 /\ s < 0 THEN q - s ELSE q + s
StrictlySmaller(b, o) == b.qty[o.symbol] * o.signed < 0
                           /\ Abs(o.signed) < Abs(b.qty[o.symbol])

-----------------------------------------------------------------------------
(* Position.add_trade: quantity after trading the signed quantity s.  The  *)
(* last branch is the code's "reducing" one.                               *)
AddTrade(q, s) ==
  CASE q = 0               -> s
    [] q # 0 /\ q + s = 0  -> 0
    [] q > 0 /\ s > 0      -> q + s
    [] q < 0 /\ s < 0      -> q + s
    [] OTHER               -> s + (IF q > 0 THEN q ELSE -q)

Exposure(b, s) == Abs(b.qty[s] * b.last[s])
Gross(b) == SumFunction([s \in Symbols |-> Exposure(b, s)])
ShortExposure(b) == SumFunction([s \in {t \in Symbols : b.qty[t] < 0} |-> Exposure(b, s)])
Nav(b) == b.cash + SumFunction([s \in Symbols |-> b.qty[s] * b.last[s]])

(* Portfolio.add_trade, without the positions it leaves alone. *)
Trade(b, symbol, signed, price, commission) ==
  [b EXCEPT !.qty[symbol] = AddTrade(@, signed),
            !.cash = @ - signed * price - commission]

-----------------------------------------------------------------------------
(* Opposite to the holding and no larger than it. *)
IsRiskReducing(b, o) == /\ b.qty[o.symbol] * o.signed < 0
                        /\ Abs(o.signed) <= Abs(b.qty[o.symbol])

(* part / whole > limit percent, where a ratio to nothing is zero. *)
Above(part, whole, limit) == whole > 0 /\ part * 100 > limit * whole

(* pre_trade_check returns no breach.  peak and equity are the drawdown    *)
(* tracker's, dayStart the equity the accounting day opened at.            *)
WithinLimits(limits, b, o, price, peak, equity, dayStart) ==
  LET nav == Nav(b)
      value == Abs(o.signed) * price
  IN  /\ ~Above(peak - equity, peak, limits.drawdown)
      /\ ~Above(dayStart - nav, dayStart, limits.dailyLoss)
      /\ ~Above(Gross(b), nav, limits.leverage)
      /\ ~Above(Gross(b) + value, nav, limits.gross)
      /\ \A s \in Symbols : ~Above(Exposure(b, s), nav, limits.concentration)
      /\ ~Above(Exposure(b, o.symbol) + value, nav, limits.concentration)

PassesGate(limits, b, o, price, peak, equity, dayStart) ==
  IsRiskReducing(b, o) \/ WithinLimits(limits, b, o, price, peak, equity, dayStart)
=============================================================================
