------------------------------ MODULE MCTrading ------------------------------
(* TLC instance of the two halves of trading: the fill engine on its own,  *)
(* with every type of order, and the two drivers, whose venue fills an     *)
(* order as a whole.  Either the engine or the drivers are at work, never  *)
(* both: the other half stays as it started.                               *)
EXTENDS MCFillEngine, MCDrivers

NoOrders == EngineOf("Optimistic", "last", TRUE, {})
NoPlan == [ConfigOf(<<>>, NoLimits, 0, 0) EXCEPT !.fee = 0]

TradingEngines == AllEngines \union {NoOrders}
TradingConfigs == AllConfigs \union {NoPlan}

EngineAlone == cfg = NoPlan
DriversAlone == engine = NoOrders

TradingInit == EngineInit /\ Init /\ (EngineAlone # DriversAlone)
TradingNext ==
  \/ EngineAlone /\ EngineNext /\ UNCHANGED vars
  \/ DriversAlone /\ Next /\ UNCHANGED engineVars
TradingSpec == TradingInit /\ [][TradingNext]_<<vars, engineVars>>
=============================================================================
