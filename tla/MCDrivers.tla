----------------------------- MODULE MCDrivers -----------------------------
(* TLC instances of Drivers: strategies that trade in and out of a position  *)
(* on market events, and ones that react to fills, cancels, refusals and     *)
(* timers; orders of 1 to 3 units of a capital of 40.                        *)
EXTENDS Drivers, TLC

CONSTANTS x, y

Order(coid, symbol, signed, limit) ==
  [kind |-> "submit", coid |-> coid, symbol |-> symbol, signed |-> signed, limit |-> limit]
Buy(coid, n) == Order(coid, x, n, 0)
Sell(coid, n) == Order(coid, x, -n, 0)
CancelIt(coid) == [kind |-> "cancel", coid |-> coid]
Timer(delay) == [kind |-> "timer", delay |-> delay]

(* In on the first tick, out in two steps, and out of what is left at the end. *)
InAndOut == <<"tick", 1>> :> Buy(1, 2) @@ <<"tick", 3>> :> Sell(2, 1)
              @@ <<"tick", 4>> :> Sell(3, 1) @@ <<"stop", 1>> :> Sell(4, 1)
(* Short and back in one step; a second symbol. *)
ShortAndBack == <<"tick", 1>> :> Sell(1, 2) @@ <<"tick", 3>> :> Buy(2, 2)
                  @@ <<"tick", 2>> :> Order(3, y, 1, 0)
(* More and more of the same: the limits bind. *)
Greedy == <<"tick", 1>> :> Buy(1, 2) @@ <<"tick", 2>> :> Buy(2, 1)
            @@ <<"tick", 3>> :> Buy(3, 1) @@ <<"tick", 4>> :> Sell(4, 2)
(* Limit orders that may rest, one of them cancelled. *)
Patient == <<"tick", 1>> :> Order(1, x, 2, 8) @@ <<"tick", 2>> :> CancelIt(1)
             @@ <<"tick", 3>> :> Order(2, x, 1, 10)
(* Out as soon as it is in, and in again. *)
Reacts == <<"tick", 1>> :> Buy(1, 2) @@ <<"fill", 1>> :> Sell(2, 2)
            @@ <<"fill", 2>> :> Buy(3, 3) @@ <<"rejected", 1>> :> Timer(1)
            @@ <<"timer", 1>> :> Buy(4, 1) @@ <<"cancelled", 1>> :> Buy(5, 1)
Scheduled == <<"tick", 1>> :> Timer(2) @@ <<"timer", 1>> :> Order(1, x, 1, 8)
               @@ <<"tick", 2>> :> Timer(0) @@ <<"tick", 3>> :> CancelIt(1)
               @@ <<"cancelled", 1>> :> Buy(2, 1)
(* Short, and back in two steps. *)
Covers == <<"tick", 1>> :> Sell(1, 3) @@ <<"tick", 2>> :> Buy(2, 1)

Tight == [drawdown |-> 10, dailyLoss |-> 10, leverage |-> 300, gross |-> 500, concentration |-> 60]

Steady == [live |-> <<0>>, back |-> <<0>>]
Jittery == [live |-> <<1, -1, 0>>, back |-> <<1, -1>>]

ConfigOf(plan, limits, out, in) ==
  [plan |-> plan, limits |-> limits, outLatency |-> out, inLatency |-> in, offsets |-> Steady,
   fee |-> 1, borrow |-> 1, flatten |-> TRUE]

AllSteps == {-1, 0, 1}

AllConfigs ==
  {ConfigOf(p, l, out, 0) : p \in {InAndOut, ShortAndBack, Greedy, Patient},
                            l \in {NoLimits, Tight}, out \in {0, 1}}
    \union {ConfigOf(p, Tight, 0, in) : p \in {Reacts, Scheduled}, in \in {0, 1}}
    \union {[ConfigOf(p, Tight, 1, 1) EXCEPT !.offsets = Jittery] : p \in {InAndOut, Reacts}}
    \union {[ConfigOf(InAndOut, Tight, 0, 0) EXCEPT !.flatten = FALSE, !.borrow = 0]}
CoverConfigs == {ConfigOf(Covers, NoLimits, 0, 0)}
=============================================================================
