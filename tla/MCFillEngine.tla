---------------------------- MODULE MCFillEngine ----------------------------
(* TLC instances of FillEngine: order intents of every kind, the market one  *)
(* tick wide around a middle price 2, book updates and prints of size 1-2.   *)
EXTENDS FillEngine, TLC

Base == [coid |-> "a", symbol |-> "X", side |-> "Buy", kind |-> "Limit", px |-> 2, sp |-> 2,
         qty |-> 2, display |-> 1, tif |-> "GTC", until |-> 0, aggressive |-> FALSE]
With(c, i) == [i EXCEPT !.coid = c]

TwoSided == {Base, With("b", [Base EXCEPT !.side = "Sell", !.tif = "GTD"])}
Stops == {[Base EXCEPT !.kind = "Stop_limit", !.sp = 3],
          With("b", [Base EXCEPT !.kind = "Stop", !.side = "Sell", !.sp = 1, !.tif = "IOC"])}
Urgent == {[Base EXCEPT !.kind = "Market", !.tif = "FOK"],
           With("b", [Base EXCEPT !.aggressive = TRUE, !.tif = "IOC"])}
Hidden == {[Base EXCEPT !.kind = "Iceberg"], With("b", [Base EXCEPT !.px = 3])}

EngineOf(maker, trigger, partial, intents) ==
  [makerFill |-> maker, stopTrigger |-> trigger, allowPartial |-> partial, intents |-> intents]

AllIntents == UNION {TwoSided, Stops, Urgent, Hidden}
AllEngines == {EngineOf("Queue_position", "touch", TRUE, TwoSided),
               EngineOf("Touch_cross", "mid", TRUE, Stops),
               EngineOf("Optimistic", "last", TRUE, Urgent),
               EngineOf("Queue_position", "touch", FALSE, Hidden)}

BookUpdate == [kind |-> "book", symbol |-> "X", price |-> 0, size |-> 0]
PrintOf(p, s) == [BookUpdate EXCEPT !.kind = "print", !.price = p, !.size = s]
AllRecords == {BookUpdate, [BookUpdate EXCEPT !.symbol = "Y"], PrintOf(2, 1), PrintOf(2, 2), PrintOf(1, 2)}
Touches(bids, depths, resting) ==
  {[bid |-> b, ask |-> b + 1, depth |-> d, resting |-> q, last |-> b] :
     b \in bids, d \in depths, q \in resting}
AllMarkets == Touches({1, 2}, {1}, {1}) \union Touches({2}, {0, 2}, {0})
                \union Touches({1, 3}, {1, 2}, {0})
=============================================================================
